---- MODULE Spec2Model ----
(***************************************************************************)
(* Post synchronization pipeline of src/actions/plugins.ts (the post       *)
(* action creators): createPost, createPostImmediately, deletePost,        *)
(* removePost, handleNewPost and the fetch family (getPostThread, getPosts,*)
(* getPostsUnread, getPostsSince, getPostsBefore, getPostsAfter,           *)
(* getPostsAround), run against                                            *)
(*   - the normalized post store (entities.posts.posts and                 *)
(*     entities.posts.pendingPostIds), whose reducers are not part of the  *)
(*     sources at hand and are modelled from the specification,            *)
(*   - the offline outbox that runs the effect / commit / rollback triple  *)
(*     of an action carrying meta.offline,                                 *)
(*   - the remote client (the server), which answers every call with a     *)
(*     payload or an error.                                                *)
(***************************************************************************)
EXTENDS Integers, Sequences, FiniteSets, TLC

(* ---------------------------------------------------------------- bounds *)

\* Date.now() ranges over 1..MaxClock.
MaxClock == 2
\* Posts of the current user the server accepts.
MaxServerPosts == 2
\* Remote calls a run asks for: accepted createPost and
\* createPostImmediately calls, and queued remote deletes.
MaxOps == 3
\* createPostImmediately calls awaiting their remote call at once.
MaxImmediate == 2
\* Posts of other users the server holds (delivered by real-time events).
MaxForeign == 3
\* Posts of the channel history the fetch operations page through.
MaxHistory == 5
\* Posts a page of the history holds at most.
PerPage == 2
\* getPosts is asked for the pages 0..MaxPage.
MaxPage == 1
\* Fetch operations a run starts.
MaxFetches == 1
\* getPostThread calls a run starts on its own or by getThreadsForPosts.
MaxThreads == 2
\* Real-time events a run of SpecEvents delivers.
MaxEvents == 2
\* pinPost and unpinPost calls a run of SpecPin makes.
MaxPins == 2
\* Reaction operations started.
MaxReactions == 3
\* Calls of removePost.
MaxRemoves == 3
\* Tokens (words and mentions) of a message.
MaxTokens == 2
\* Posts of a batch handed to the prefetcher.
MaxBatch == 2

(* ------------------------------------------------------------ constants *)

CurrentUserId == "u1"
OtherUserId == "u2"
CurrentChannelId == "c1"
Channels == {"c1", "c2"}

\* The empty string: the value of an id a post has none for (root_id,
\* pending_post_id), falsy like undefined.
NoId == <<>>
\* A post without the system_post_ids field.
NoSystemPostIds == <<NoId>>

COMBINED_USER_ACTIVITY == "system_combined_user_activity"
JOIN_CHANNEL == "system_join_channel"
HEADER_CHANGE == "system_header_change"

RootIdAppError == "api.post.create_post.root_id.app_error"
TownSquareReadOnly == "api.post.create_post.town_square_read_only"
DismissPost == "plugin.message_will_be_posted.dismiss_post"
OtherError == "api.context.session_expired.app_error"
CreateErrors == {RootIdAppError, TownSquareReadOnly, DismissPost, OtherError}

\* `${currentUserId}:${timestamp}`
PendingId(userId, timestamp) == <<userId, timestamp>>
PendingIds == {PendingId(CurrentUserId, t) : t \in 1..MaxClock}
ServerId(n) == <<"srv", n>>
ForeignId(k) == <<"ext", k>>
CombinedId == <<"combined", 0>>

\* The server's clock never coincides with a local timestamp.
ServerTime(t) == MaxClock + 1 + t

VARIABLES
    now,             \* Date.now()
    posts,           \* state.entities.posts.posts: post id -> post
    pendingPostIds,  \* state.entities.posts.pendingPostIds
    outbox,          \* offline outbox: queued effect/commit/rollback triples
    immediate,       \* createPostImmediately calls awaiting Client4.createPost
    threadReqs,      \* getPostThread calls awaiting Client4.getPostThread
    serverPosts,     \* creates the server has accepted: the pending id of
                     \* the request (pid) and the post it answered (post)
    failedSends,     \* pending ids whose send failed (what a caller may retry)
    ops,             \* remote calls asked for so far
    calls,           \* fetch operations awaiting the remote client
    myMembers,       \* state.entities.channels.myMembers, per channel
    reactions,       \* state.entities.posts.reactions, as a set of reactions
    msgCounts,       \* per channel: its total and its unread message counter
    cached,          \* what state.entities.users and .emojis have cached
    storedFiles,     \* state.entities.files.files, as a set of files
    lastOp           \* the last operation run: what it dispatched and returned

vars == <<now, posts, pendingPostIds, outbox, immediate, threadReqs,
          serverPosts, failedSends, ops, calls, myMembers, reactions,
          msgCounts, cached, storedFiles, lastOp>>

(* ---------------------------------------------------------------- posts *)

Post(id, pending, channel, user, root, at, type, members) ==
    [id |-> id, pending_post_id |-> pending, channel_id |-> channel,
     user_id |-> user, root_id |-> root, create_at |-> at, update_at |-> at,
     failed |-> FALSE, state |-> "", type |-> type,
     from_webhook |-> FALSE, system_post_ids |-> members, is_pinned |-> FALSE,
     file_ids |-> <<>>, message |-> <<>>, metadata |-> FALSE,
     attachments |-> <<>>]

\* An object that maps post ids to posts: its entries, in the order the keys
\* were inserted (the order Object.values and the spread syntax follow).
Entry(key, value) == [key |-> key, value |-> value]
Keys(obj) == {obj[i].key : i \in 1..Len(obj)}
Lookup(obj, key) == obj[CHOOSE i \in 1..Len(obj) : obj[i].key = key].value
\* The posts of a list of posts with distinct ids, keyed by their id.
ById(list) == [i \in 1..Len(list) |-> Entry(list[i].id, list[i])]

\* Object.values(obj)
Values(obj) == [i \in 1..Len(obj) |-> obj[i].value]

\* {...a, ...b} of two such objects: a key of a keeps its place and takes the
\* value b has for it; the keys b adds follow in the order of b.
Spread(a, b) ==
    [i \in 1..Len(a) |->
        IF a[i].key \in Keys(b) THEN Entry(a[i].key, Lookup(b, a[i].key))
        ELSE a[i]]
    \o SelectSeq(b, LAMBDA e : e.key \notin Keys(a))

\* A list of calls in flight without its i-th.
Without(inFlight, i) ==
    SubSeq(inFlight, 1, i - 1) \o SubSeq(inFlight, i + 1, Len(inFlight))

\* {...a, ...b} of two records: the fields of a, overridden and extended by
\* the fields b has, whatever their values.
SpreadFields(a, b) ==
    [x \in (DOMAIN a) \cup (DOMAIN b) |-> IF x \in DOMAIN b THEN b[x] ELSE a[x]]

\* A post object that has no id key.
WithoutId(post) == [x \in (DOMAIN post) \ {"id"} |-> post[x]]

\* A draft as the caller hands it to createPost: no id key, no pending id.
FreshDraft(channel) ==
    WithoutId(Post(NoId, NoId, channel, CurrentUserId, NoId, 0, "",
                   NoSystemPostIds))

\* Posts of other users held by the server: post 1 is a message, post 2 a
\* reply to it in another channel, the others are system activity posts.
ForeignPost(k) ==
    Post(ForeignId(k), NoId, IF k = 2 THEN "c2" ELSE "c1", OtherUserId,
         IF k = 2 THEN ForeignId(1) ELSE NoId, ServerTime(0),
         IF k > 2 THEN JOIN_CHANNEL ELSE "", NoSystemPostIds)
ForeignPosts == {ForeignPost(k) : k \in 1..MaxForeign}

(* -------------------------------------------------------------- actions *)

\* A redux action: its type, the post id it is about, its payload.
Act(type, id, data) == [type |-> type, id |-> id, data |-> data]
\* A function (thunk) placed where a plain action is expected.
Thunk(name, id) == Act("THUNK:" \o name, id, NoId)

receivedPost(post) == Act("RECEIVED_POST", post.id, post)
receivedNewPost(post) == Act("RECEIVED_NEW_POST", post.id, post)
postDeleted(post) == Act("POST_DELETED", post.id, post)
postRemoved(post) == Act("POST_REMOVED", post.id, post)
\* The posts of a post list (data carries the posts of its mapping as the
\* reducer walks them).
receivedPosts(list) ==
    [type |-> "RECEIVED_POSTS", id |-> NoId, data |-> Values(list.posts),
     list |-> list]
receivedPostsInThread(list, rootId) ==
    [type |-> "RECEIVED_POSTS_IN_THREAD", id |-> rootId, data |-> list]
Plain(type) == Act(type, NoId, NoId)

\* forceLogoutIfNecessary(error, dispatch, getState): a call, not an action.
forceLogoutIfNecessary(error) == Act("CALL:forceLogoutIfNecessary", NoId, error)
\* dispatch(logError(error)): the thunk runs and dispatches the error.
logError(error) == Act("LOG_ERROR", NoId, error)

\* What lastOp keeps of a dispatched action.
LogOf(actions) ==
    [i \in 1..Len(actions) |-> [type |-> actions[i].type, id |-> actions[i].id]]

(* ------------------------------------------------- store (reducers) *)

StorePut(ps, post) ==
    [x \in (DOMAIN ps) \cup {post.id} |-> IF x = post.id THEN post ELSE ps[x]]
StoreDrop(ps, id) == [x \in (DOMAIN ps) \ {id} |-> ps[x]]

\* A single received post replaces the record at its id; the optimistic
\* record at its pending id, if any, is replaced with it.
handlePostReceived(ps, post) ==
    LET put == StorePut(ps, post)
    IN  IF post.pending_post_id # NoId /\ post.id # post.pending_post_id
        THEN StoreDrop(put, post.pending_post_id)
        ELSE put

RECURSIVE handlePostsReceived(_, _)
handlePostsReceived(ps, list) ==
    IF list = <<>> THEN ps
    ELSE handlePostsReceived(handlePostReceived(ps, Head(list)), Tail(list))

\* entities.posts.posts
handlePosts(ps, action) ==
    CASE action.type \in {"RECEIVED_POST", "RECEIVED_NEW_POST"} ->
            handlePostReceived(ps, action.data)
      [] action.type = "RECEIVED_POSTS" ->
            handlePostsReceived(ps, action.data)
      [] action.type = "POST_DELETED" ->
            IF action.id \in DOMAIN ps
            THEN [ps EXCEPT ![action.id].state = "DELETED"]
            ELSE ps
      [] action.type = "POST_REMOVED" -> StoreDrop(ps, action.id)
      [] OTHER -> ps

\* entities.posts.pendingPostIds: a send is reserved by its optimistic record
\* and released when a post carrying its pending id is received or removed.
handlePendingPosts(pend, action) ==
    CASE action.type = "RECEIVED_NEW_POST" ->
            IF action.data.pending_post_id # NoId
               /\ action.data.id = action.data.pending_post_id
            THEN pend \cup {action.data.pending_post_id}
            ELSE pend
      [] action.type = "RECEIVED_POST" ->
            pend \ {action.data.pending_post_id}
      [] action.type = "POST_REMOVED" -> pend \ {action.id}
      [] OTHER -> pend

\* The store after a sequence of plain actions, one after the other; a batch
\* (batchActions) is reduced the same way.
RECURSIVE ReducePosts(_, _)
ReducePosts(ps, actions) ==
    IF actions = <<>> THEN ps
    ELSE ReducePosts(handlePosts(ps, Head(actions)), Tail(actions))

RECURSIVE ReducePending(_, _)
ReducePending(pend, actions) ==
    IF actions = <<>> THEN pend
    ELSE ReducePending(handlePendingPosts(pend, Head(actions)), Tail(actions))

\* Selectors.isPostIdSending
isPostIdSending(pend, postId) == \E sendingPostId \in pend : sendingPostId = postId

\* entities.posts.reactions
handleReactions(rs, action) ==
    CASE action.type = "RECEIVED_REACTION" -> rs \cup {action.data}
      [] action.type = "REACTION_DELETED" -> rs \ {action.data}
      [] action.type = "RECEIVED_REACTIONS" ->
            {r \in rs : r.post_id # action.id}
                \cup {action.data[i] : i \in 1..Len(action.data)}
      [] OTHER -> rs

\* The message counters of a channel (its total and its unread count).
handleCounts(mc, action) ==
    CASE action.type = "INCREMENT_TOTAL_MSG_COUNT" ->
            [mc EXCEPT ![action.id].total = @ + action.data]
      [] action.type = "DECREMENT_UNREAD_MSG_COUNT" ->
            [mc EXCEPT ![action.id].unread = @ - action.data]
      [] action.type = "INCREMENT_UNREAD_MSG_COUNT" ->
            [mc EXCEPT ![action.id].unread = @ + action.data]
      [] OTHER -> mc

\* entities.files.files: the files received for a post are kept.
handleFiles(fs, action) ==
    CASE action.type = "RECEIVED_FILES_FOR_POST" ->
            fs \cup {action.data[i] : i \in 1..Len(action.data)}
      [] OTHER -> fs

RECURSIVE ReduceFiles(_, _)
ReduceFiles(fs, actions) ==
    IF actions = <<>> THEN fs
    ELSE ReduceFiles(handleFiles(fs, Head(actions)), Tail(actions))

RECURSIVE ReduceReactions(_, _)
ReduceReactions(rs, actions) ==
    IF actions = <<>> THEN rs
    ELSE ReduceReactions(handleReactions(rs, Head(actions)), Tail(actions))

RECURSIVE ReduceCounts(_, _)
ReduceCounts(mc, actions) ==
    IF actions = <<>> THEN mc
    ELSE ReduceCounts(handleCounts(mc, Head(actions)), Tail(actions))

\* dispatch(...) of plain actions, in order.
Dispatch(actions) ==
    /\ posts' = ReducePosts(posts, actions)
    /\ pendingPostIds' = ReducePending(pendingPostIds, actions)
    /\ reactions' = ReduceReactions(reactions, actions)
    /\ msgCounts' = ReduceCounts(msgCounts, actions)
    /\ storedFiles' = ReduceFiles(storedFiles, actions)

(* ------------------------------------------------------ offline outbox *)

\* An action dispatched with meta.offline: its effect is queued; `post` is
\* what the effect, commit and rollback closures captured.
OfflineEntry(kind, id, post, files) ==
    [kind |-> kind, id |-> id, post |-> post, sent |-> FALSE, resp |-> "none",
     payload |-> post, files |-> files]

Op(op, id, sid, dedup, dispatched, queued, ret) ==
    [op |-> op, id |-> id, sid |-> sid, dedup |-> dedup,
     dispatched |-> dispatched, queued |-> queued, ret |-> ret,
     members |-> NoSystemPostIds]

\* What lastOp keeps of a fetch operation besides: what it dispatched and
\* called, in order (effects), the answers of the remote client (parts) and
\* the page it was asked for.
OpFetch(op, id, dispatched, ret, effects, parts, page) ==
    [op |-> op, id |-> id, sid |-> NoId, dedup |-> FALSE,
     dispatched |-> dispatched, queued |-> <<>>, ret |-> ret,
     members |-> NoSystemPostIds, effects |-> effects, parts |-> parts,
     page |-> page]

\* What lastOp keeps of a handled event besides: the read / unread marks it
\* applied (effects), the event (msg) and the membership record it found.
OpEvent(op, id, dispatched, ret, effects, msg, member) ==
    [op |-> op, id |-> id, sid |-> NoId, dedup |-> FALSE,
     dispatched |-> dispatched, queued |-> <<>>, ret |-> ret,
     members |-> NoSystemPostIds, effects |-> effects, msg |-> msg,
     member |-> member]

(* ------------------------------------------------------------ createPost *)

\* Mutant: a pending id supplied with the post is ignored.
CreatePostPendingIdAlwaysNew(post, timestamp) == PendingId(CurrentUserId, timestamp)

\* post.pending_post_id || `${currentUserId}:${timestamp}`
CreatePostPendingId(post, timestamp) ==
    IF post.pending_post_id # NoId THEN post.pending_post_id
    ELSE PendingId(CurrentUserId, timestamp)

\* Mutant: the check for an outstanding send is lost.
CreatePostNeverDuplicate(pend, pendingPostId) == FALSE

\* if (Selectors.isPostIdSending(state, pendingPostId)) return {data: true};
CreatePostIsDuplicate(pend, pendingPostId) == isPostIdSending(pend, pendingPostId)

\* Mutant: the pending id is not stamped on the new post.
CreatePostNewPostUnstamped(post, pendingPostId, timestamp) ==
    [post EXCEPT !.create_at = timestamp, !.update_at = timestamp]

\* newPost = {...post, pending_post_id, create_at: timestamp, update_at: timestamp}
CreatePostNewPost(post, pendingPostId, timestamp) ==
    [post EXCEPT !.pending_post_id = pendingPostId,
                 !.create_at = timestamp, !.update_at = timestamp]

\* {id: pendingPostId, ...newPost}
OptimisticRecord(pendingPostId, newPost) ==
    SpreadFields([id |-> pendingPostId], newPost)

\* What a caller may hand to createPost: a new draft, the pending record the
\* store holds (a double submit or the retry of a failed post), or the draft
\* of a failed send.
Drafts ==
    {FreshDraft(CurrentChannelId)}
    \cup {posts[p] : p \in {q \in DOMAIN posts : posts[q].pending_post_id = q}}
    \cup {[FreshDraft(CurrentChannelId) EXCEPT !.pending_post_id = p] : p \in failedSends}

\* A file as the caller hands it over, and what the caller may hand over.
File(id) == [id |-> id]
FileLists == {<<>>, <<File("f1")>>}

\* state.entities.files.files[id]: the file, or undefined.
Undefined == [undefined |-> TRUE]
FileOf(fs, id) ==
    IF \E file \in fs : file.id = id
    THEN CHOOSE file \in fs : file.id = id
    ELSE Undefined

\* if (newPost.file_ids && !files.length)
\*     files = newPost.file_ids.map((id) => state.entities.files.files[id])
CreatePostFiles(fs, newPost, files) ==
    IF newPost.file_ids # <<>> /\ Len(files) = 0
    THEN [i \in 1..Len(newPost.file_ids) |-> FileOf(fs, newPost.file_ids[i])]
    ELSE files

\* files.map((file) => file.id) throws a TypeError on undefined.
FileIdsThrow(files) == \E i \in 1..Len(files) : "id" \notin DOMAIN files[i]
FileIds(files) == [i \in 1..Len(files) |-> files[i].id]

\* if (files.length) newPost = {...newPost, file_ids: fileIds}
WithFiles(newPost, files) ==
    IF Len(files) # 0
    THEN SpreadFields(newPost, [file_ids |-> FileIds(files)])
    ELSE newPost

\* if (files.length) dispatch({type: RECEIVED_FILES_FOR_POST, postId, data})
FilesReceipt(postId, files) ==
    IF Len(files) # 0
    THEN <<Act("RECEIVED_FILES_FOR_POST", postId, files)>>
    ELSE <<>>

\* Mutant: the effect is queued without the optimistic update.
CreatePostNotOptimistic(pendingPostId, newPost, files) == <<>>

\* dispatch({type: RECEIVED_FILES_FOR_POST, ...}) when there are files, then
\* dispatch({type: RECEIVED_NEW_POST, data: {id: pendingPostId, ...newPost}, meta})
CreatePostOptimistic(pendingPostId, newPost, files) ==
    FilesReceipt(pendingPostId, files)
        \o <<receivedNewPost(OptimisticRecord(pendingPostId, newPost))>>

\* createPost(post, files). The thunk is rejected, with nothing dispatched,
\* when a file id of the post names no stored file.
createPost(post, files) ==
    LET timestamp == now
        pendingPostId == CreatePostPendingId(post, timestamp)
        stamped == CreatePostNewPost(post, pendingPostId, timestamp)
        given == CreatePostFiles(storedFiles, stamped, files)
        newPost == WithFiles(stamped, given)
        actions == CreatePostOptimistic(pendingPostId, newPost, given)
    IN  IF CreatePostIsDuplicate(pendingPostIds, pendingPostId)
        THEN /\ lastOp' = Op("createPost", pendingPostId, NoId, TRUE, <<>>, <<>>, "data")
             /\ UNCHANGED <<storedFiles, reactions, msgCounts, cached, calls, myMembers, now, posts, pendingPostIds, outbox, immediate,
                            threadReqs, serverPosts, failedSends, ops>>
        ELSE IF FileIdsThrow(given)
        THEN /\ lastOp' = Op("createPost", pendingPostId, NoId, FALSE, <<>>, <<>>,
                             "TypeError")
             /\ UNCHANGED <<storedFiles, reactions, msgCounts, cached, calls, myMembers, now, posts, pendingPostIds, outbox, immediate,
                            threadReqs, serverPosts, failedSends, ops>>
        ELSE /\ ops < MaxOps
             /\ ops' = ops + 1
             /\ Dispatch(actions)
             /\ outbox' = Append(outbox, OfflineEntry("create", pendingPostId,
                                                      newPost, given))
             /\ lastOp' = Op("createPost", pendingPostId, NoId, FALSE,
                             LogOf(actions), <<pendingPostId>>, "data")
             /\ failedSends' = failedSends \ {pendingPostId}
             /\ UNCHANGED <<cached, calls, myMembers, now, immediate, threadReqs, serverPosts>>

(* ------------------------------------------------ the remote client *)

\* Client4.createPost({...newPost, create_at: 0}): the server assigns the id
\* and both timestamps and echoes the pending id.
ServerCreate(newPost, n, t) ==
    SpreadFields(newPost, [id |-> ServerId(n), create_at |-> ServerTime(t),
                           update_at |-> ServerTime(t), failed |-> FALSE])

\* The outbox runs the effect of its first entry; the server answers.
OfflineSend(resp) ==
    /\ outbox # <<>>
    /\ ~outbox[1].sent
    /\ LET e == outbox[1]
           n == Cardinality(serverPosts) + 1
           payload == ServerCreate(e.post, n, now)
           accepted == e.kind = "create" /\ resp = "ok"
       IN  /\ e.kind = "create" => resp \in {"ok"} \cup CreateErrors
           /\ e.kind = "delete" => resp \in {"ok", OtherError}
           /\ accepted => n <= MaxServerPosts
           /\ serverPosts' = IF accepted
                             THEN serverPosts \cup {[pid |-> e.id, post |-> payload]}
                             ELSE serverPosts
           /\ outbox' = [outbox EXCEPT ![1] =
                            [e EXCEPT !.sent = TRUE, !.resp = resp,
                                      !.payload = IF accepted THEN payload ELSE e.post]]
    /\ lastOp' = Op("offlineSend", outbox[1].id, NoId, FALSE, <<>>, <<>>, resp)
    /\ UNCHANGED <<storedFiles, reactions, msgCounts, cached, calls, myMembers, now, posts, pendingPostIds, immediate, threadReqs, failedSends,
                   ops>>

\* Mutant: the local record is promoted in place instead of replaced by the
\* server's.
CreatePostCommitKeepsLocal(newPost, payload, files) ==
    <<receivedPost(SpreadFields(newPost, [id |-> payload.id])),
      Plain("CREATE_POST_SUCCESS"),
      Act("INCREMENT_TOTAL_MSG_COUNT", newPost.channel_id, 1),
      Act("DECREMENT_UNREAD_MSG_COUNT", newPost.channel_id, 1),
      Act("RECEIVED_FILES_FOR_POST", payload.id, files)>>

\* Mutant: the counters are adjusted for the channel of the server's payload
\* and the files are re-attached under the pending id.
CreatePostCommitMiscounts(newPost, payload, files) ==
    <<receivedPost(payload),
      Plain("CREATE_POST_SUCCESS"),
      Act("INCREMENT_TOTAL_MSG_COUNT", newPost.channel_id, 1),
      Act("INCREMENT_TOTAL_MSG_COUNT", newPost.channel_id, 1),
      Act("RECEIVED_FILES_FOR_POST", newPost.pending_post_id, files)>>

\* commit: (result, payload) => dispatch(batchActions([...])); files is an
\* array, so that `if (files)` holds and the files are always re-attached.
CreatePostCommitActions(newPost, payload, files) ==
    <<receivedPost(payload),
      Plain("CREATE_POST_SUCCESS"),
      Act("INCREMENT_TOTAL_MSG_COUNT", newPost.channel_id, 1),
      Act("DECREMENT_UNREAD_MSG_COUNT", newPost.channel_id, 1),
      Act("RECEIVED_FILES_FOR_POST", payload.id, files)>>

CreatePostCommit ==
    /\ outbox # <<>>
    /\ outbox[1].kind = "create"
    /\ outbox[1].sent
    /\ outbox[1].resp = "ok"
    /\ LET e == outbox[1]
           actions == CreatePostCommitActions(e.post, e.payload, e.files)
       IN  /\ Dispatch(actions)
           /\ lastOp' = Op("createPostCommit", e.id, e.payload.id, FALSE,
                           LogOf(actions), <<>>, "ok")
    /\ outbox' = Tail(outbox)
    /\ failedSends' = failedSends \ {outbox[1].id}
    /\ UNCHANGED <<cached, calls, myMembers, now, immediate, threadReqs, serverPosts, ops>>

IsCombined(post) ==
    post.type = COMBINED_USER_ACTIVITY /\ post.system_post_ids # NoSystemPostIds

\* Mutant: the record handed in is removed, combined or not.
removePostItself(ps, post) == <<postRemoved(post)>>

\* removePost(post): the actions it dispatches, given the store it reads.
RECURSIVE removePost(_, _)
RECURSIVE removeSystemPosts(_, _, _, _)
removePost(ps, post) ==
    IF IsCombined(post)
    THEN removeSystemPosts(ps, ps, post.system_post_ids, <<>>)
    ELSE <<postRemoved(post)>>
removeSystemPosts(state, cur, ids, acc) ==
    IF ids = <<>> THEN acc
    ELSE IF Head(ids) \in DOMAIN state
         THEN LET more == removePost(cur, state[Head(ids)])
              IN  removeSystemPosts(state, ReducePosts(cur, more), Tail(ids), acc \o more)
         ELSE removeSystemPosts(state, cur, Tail(ids), acc)

\* Mutant: the plugin's dismissal is not among the reasons.
CreatePostRemovesOnTwo(serverErrorId) ==
    \/ serverErrorId = RootIdAppError
    \/ serverErrorId = TownSquareReadOnly

\* The reasons for which a failed post is removed instead of marked failed.
CreatePostRemovesOn(serverErrorId) ==
    \/ serverErrorId = RootIdAppError
    \/ serverErrorId = TownSquareReadOnly
    \/ serverErrorId = DismissPost

\* Mutant: a failure for another reason dispatches nothing for the post.
CreatePostRollbackForgets(ps, newPost, pendingPostId, serverErrorId, dateNow) ==
    LET data == SpreadFields(newPost, [id |-> pendingPostId, failed |-> TRUE,
                                       update_at |-> dateNow])
    IN  <<Act("CREATE_POST_FAILURE", NoId, serverErrorId)>>
        \o (IF CreatePostRemovesOn(serverErrorId)
            THEN removePost(ps, data)
            ELSE <<>>)

\* rollback: (result, error) => {...}
CreatePostRollbackActions(ps, newPost, pendingPostId, serverErrorId, dateNow) ==
    LET data == SpreadFields(newPost, [id |-> pendingPostId, failed |-> TRUE,
                                       update_at |-> dateNow])
    IN  <<Act("CREATE_POST_FAILURE", NoId, serverErrorId)>>
        \o (IF CreatePostRemovesOn(serverErrorId)
            THEN removePost(ps, data)
            ELSE <<receivedPost(data)>>)

CreatePostRollback ==
    /\ outbox # <<>>
    /\ outbox[1].kind = "create"
    /\ outbox[1].sent
    /\ outbox[1].resp \in CreateErrors
    /\ LET e == outbox[1]
           actions == CreatePostRollbackActions(posts, e.post, e.id, e.resp, now)
       IN  /\ Dispatch(actions)
           /\ failedSends' = failedSends \cup {e.id}
           /\ lastOp' = Op("createPostRollback", e.id, NoId, FALSE,
                           LogOf(actions), <<>>, e.resp)
    /\ outbox' = Tail(outbox)
    /\ UNCHANGED <<cached, calls, myMembers, now, immediate, threadReqs, serverPosts, ops>>

(* ------------------------------------------------------------ deletePost *)

\* deletePost(post): the posts for which it dispatches POST_DELETED with a
\* queued remote delete, in order, given the store it reads.
RECURSIVE deletePostTargets(_, _)
RECURSIVE deleteSystemPosts(_, _, _, _)
\* Mutant: the combined record is deleted along with its members.
deletePostTargetsAndSelf(ps, post) ==
    IF IsCombined(post)
    THEN deleteSystemPosts(ps, ps, post.system_post_ids, <<>>) \o <<post>>
    ELSE <<post>>

deletePostTargets(ps, post) ==
    IF IsCombined(post)
    THEN deleteSystemPosts(ps, ps, post.system_post_ids, <<>>)
    ELSE <<post>>
deleteSystemPosts(state, cur, ids, acc) ==
    IF ids = <<>> THEN acc
    ELSE IF Head(ids) \in DOMAIN state
         THEN LET more == deletePostTargets(cur, state[Head(ids)])
                  marks == [i \in 1..Len(more) |-> postDeleted(more[i])]
              IN  deleteSystemPosts(state, ReducePosts(cur, marks), Tail(ids), acc \o more)
         ELSE deleteSystemPosts(state, cur, Tail(ids), acc)

\* The ids of M in the order of their posts: a combined post lists the posts
\* it combines in the order they were made.
MemberIds(M) ==
    SelectSeq([k \in 1..MaxForeign |-> ForeignId(k)], LAMBDA id : id \in M)

\* A combined system-activity post over posts of other users.
CombinedPost(members) ==
    Post(CombinedId, NoId, CurrentChannelId, OtherUserId, NoId, ServerTime(0),
         COMBINED_USER_ACTIVITY, members)

ForeignIds == {ForeignId(k) : k \in 1..MaxForeign}

\* What a caller may hand to deletePost: a post of the store, or a combined
\* post over posts of other users, which the store may or may not hold.
StoredPosts == {posts[x] : x \in DOMAIN posts}
CombinedPosts ==
    {CombinedPost(MemberIds(M)) : M \in (SUBSET ForeignIds) \ {{}}}
Deletable == StoredPosts \cup CombinedPosts

deletePost(post) ==
    LET targets == deletePostTargets(posts, post)
        actions == [i \in 1..Len(targets) |-> postDeleted(targets[i])]
        entries == [i \in 1..Len(targets) |->
                        OfflineEntry("delete", targets[i].id, targets[i], <<>>)]
    IN  /\ ops + Len(targets) <= MaxOps
        /\ ops' = ops + Len(targets)
        /\ Dispatch(actions)
        /\ outbox' = outbox \o entries
        /\ lastOp' = [Op("deletePost", post.id, NoId, FALSE, LogOf(actions),
                          [i \in 1..Len(targets) |-> targets[i].id], "data")
                       EXCEPT !.members = post.system_post_ids]
        /\ UNCHANGED <<cached, calls, myMembers, now, immediate, threadReqs, serverPosts, failedSends>>

\* dispatch(removePost(post)) by a caller of this layer: the thunk runs and
\* returns nothing.
dispatchRemovePost(post) ==
    LET actions == removePost(posts, post)
    IN  /\ ops < MaxRemoves
        /\ ops' = ops + 1
        /\ Dispatch(actions)
        /\ lastOp' = [Op("removePost", post.id, NoId, FALSE, LogOf(actions),
                          <<>>, "undefined")
                       EXCEPT !.members = post.system_post_ids]
        /\ UNCHANGED <<cached, calls, myMembers, now, outbox, immediate,
                       threadReqs, serverPosts, failedSends>>

\* commit: {type: 'do_nothing'}
DeletePostCommitActions(delPost) == <<Plain("do_nothing")>>

\* Mutant: the rollback dispatches nothing that restores the post.
DeletePostRollbackNothing(delPost) == <<Plain("do_nothing")>>

\* rollback: receivedPost(delPost)
DeletePostRollbackActions(delPost) == <<receivedPost(delPost)>>

DeletePostCommit ==
    /\ outbox # <<>>
    /\ outbox[1].kind = "delete"
    /\ outbox[1].sent
    /\ outbox[1].resp = "ok"
    /\ LET actions == DeletePostCommitActions(outbox[1].post)
       IN  /\ Dispatch(actions)
           /\ lastOp' = Op("deletePostCommit", outbox[1].id, NoId, FALSE,
                           LogOf(actions), <<>>, "ok")
    /\ outbox' = Tail(outbox)
    /\ UNCHANGED <<cached, calls, myMembers, now, immediate, threadReqs, serverPosts, failedSends, ops>>

DeletePostRollback ==
    /\ outbox # <<>>
    /\ outbox[1].kind = "delete"
    /\ outbox[1].sent
    /\ outbox[1].resp = OtherError
    /\ LET actions == DeletePostRollbackActions(outbox[1].post)
       IN  /\ Dispatch(actions)
           /\ lastOp' = Op("deletePostRollback", outbox[1].id, NoId, FALSE,
                           LogOf(actions), <<>>, outbox[1].resp)
    /\ outbox' = Tail(outbox)
    /\ UNCHANGED <<cached, calls, myMembers, now, immediate, threadReqs, serverPosts, failedSends, ops>>

(* ---------------------------------------------------------- getPostThread *)

\* One getPostThread call awaiting the remote client.
ThreadReq(rootId, fetchThreads) ==
    [rootId |-> rootId, fetchThreads |-> fetchThreads]

\* The root and its replies, as the server holds them.
RECURSIVE ForeignThread(_, _)
ForeignThread(rootId, k) ==
    IF k > MaxForeign THEN <<>>
    ELSE (IF ForeignPost(k).id = rootId \/ ForeignPost(k).root_id = rootId
          THEN <<ForeignPost(k)>> ELSE <<>>) \o ForeignThread(rootId, k + 1)

\* Client4.getPostThread(rootId, fetchThreads): the post list of the thread;
\* the replies are left out when the threads are not to be fetched.
ThreadList(rootId, fetchThreads) ==
    LET thread == IF fetchThreads THEN ForeignThread(rootId, 1)
                  ELSE SelectSeq(ForeignThread(rootId, 1),
                                 LAMBDA post : post.id = rootId)
    IN  [order |-> [i \in 1..Len(thread) |-> thread[i].id],
         posts |-> ById(thread),
         next_post_id |-> NoId,
         prev_post_id |-> NoId]

\* getPostThread up to its await: the request marker, then the remote call.
GetPostThreadStart(rootId) == <<Plain("GET_POST_THREAD_REQUEST")>>

(* ---------------------------------------------------------- handleNewPost *)

\* utils/post_utils
IgnorePostTypes == {JOIN_CHANNEL}
shouldIgnorePost(post) == post.type \in IgnorePostTypes
isSystemMessage(post) ==
    post.type \in {JOIN_CHANNEL, COMBINED_USER_ACTIVITY, HEADER_CHANGE}
isFromWebhook(post) == post.from_webhook

\* completePostReceive: post.root_id && !rootPost
FetchesThread(ps, post) == post.root_id # NoId /\ post.root_id \notin DOMAIN ps

\* post.channel_id + post.root_id: the characters of the one followed by
\* those of the other (an id is a sequence, the empty one for '').
TypingId(channelId, rootId) == <<channelId>> \o rootId

\* lastPostActions: the batch it dispatches first.
LastPostReceipt(post, dateNow) ==
    <<receivedNewPost(post),
      Act("STOP_TYPING", TypingId(post.channel_id, post.root_id),
          [userId |-> post.user_id, now |-> dateNow])>>

\* Mutant: an ignored post is marked like any other.
LastPostMarksNoIgnore(post, currentUserId, currentChannelId, websocketMessageProps) ==
    IF post.user_id = currentUserId /\ ~isSystemMessage(post) /\ ~isFromWebhook(post)
    THEN <<Act("markChannelAsRead", post.channel_id, FALSE),
           Act("markChannelAsViewed", post.channel_id, NoId)>>
    ELSE IF post.channel_id = currentChannelId
         THEN <<Act("markChannelAsRead", post.channel_id, TRUE),
                Act("markChannelAsViewed", post.channel_id, NoId)>>
    ELSE <<Act("markChannelAsUnread", post.channel_id,
               [team_id |-> websocketMessageProps.team_id,
                mentions |-> websocketMessageProps.mentions])>>

\* Mutant: the focused channel is looked at before the author.
LastPostMarksFocusFirst(post, currentUserId, currentChannelId, websocketMessageProps) ==
    IF shouldIgnorePost(post) THEN <<>>
    ELSE IF post.channel_id = currentChannelId
         THEN <<Act("markChannelAsRead", post.channel_id, TRUE),
                Act("markChannelAsViewed", post.channel_id, NoId)>>
    ELSE IF post.user_id = currentUserId /\ ~isSystemMessage(post) /\ ~isFromWebhook(post)
         THEN <<Act("markChannelAsRead", post.channel_id, FALSE),
                Act("markChannelAsViewed", post.channel_id, NoId)>>
    ELSE <<Act("markChannelAsUnread", post.channel_id,
               [team_id |-> websocketMessageProps.team_id,
                mentions |-> websocketMessageProps.mentions])>>

\* Mutant: a post in another channel marks it unread without the mentions.
LastPostMarksNoMentions(post, currentUserId, currentChannelId, websocketMessageProps) ==
    IF shouldIgnorePost(post) THEN <<>>
    ELSE IF post.user_id = currentUserId /\ ~isSystemMessage(post) /\ ~isFromWebhook(post)
         THEN <<Act("markChannelAsRead", post.channel_id, FALSE),
                Act("markChannelAsViewed", post.channel_id, NoId)>>
    ELSE IF post.channel_id = currentChannelId
         THEN <<Act("markChannelAsRead", post.channel_id, TRUE),
                Act("markChannelAsViewed", post.channel_id, NoId)>>
    ELSE <<Act("markChannelAsUnread", post.channel_id,
               [team_id |-> websocketMessageProps.team_id, mentions |-> <<>>])>>

\* lastPostActions: the read / unread policy after the receipt. The data of
\* markChannelAsRead is its markAsReadOnServer argument, the data of
\* markChannelAsUnread the team and the mentions of the event.
LastPostMarks(post, currentUserId, currentChannelId, websocketMessageProps) ==
    IF shouldIgnorePost(post) THEN <<>>
    ELSE IF post.user_id = currentUserId /\ ~isSystemMessage(post) /\ ~isFromWebhook(post)
         THEN <<Act("markChannelAsRead", post.channel_id, FALSE),
                Act("markChannelAsViewed", post.channel_id, NoId)>>
    ELSE IF post.channel_id = currentChannelId
         THEN <<Act("markChannelAsRead", post.channel_id, TRUE),
                Act("markChannelAsViewed", post.channel_id, NoId)>>
    ELSE <<Act("markChannelAsUnread", post.channel_id,
               [team_id |-> websocketMessageProps.team_id,
                mentions |-> websocketMessageProps.mentions])>>

\* General.OPEN_CHANNEL, General.DM_CHANNEL, General.GM_CHANNEL
OPEN_CHANNEL == "O"
DM_CHANNEL == "D"
GM_CHANNEL == "G"

\* The event handleNewPost is given: msg.data.post, msg.data.mentions,
\* msg.data.channel_type, msg.data.channel_name and msg.data.team_id. The
\* name of a direct channel is the ids of its two users joined by '__',
\* kept as the sequence of the two.
Msg(post, mentions, channel_type, channel_name, team_id) ==
    [post |-> post, mentions |-> mentions, channel_type |-> channel_type,
     channel_name |-> channel_name, team_id |-> team_id]
MentionSets == {<<>>, <<CurrentUserId>>}

\* The event of a post in a public channel of the team.
TeamId == "t1"
OpenMsg(post, mentions) ==
    Msg(post, mentions, OPEN_CHANNEL, <<"town-square">>, TeamId)

\* utils/channel_utils: channelName.split('__'), then the id that is not
\* userId's place.
getUserIdFromChannelName(userId, channelName) ==
    IF channelName[1] = userId THEN channelName[2] ELSE channelName[1]

\* handleNewPost after completePostReceive: a direct or a group channel is
\* made visible.
ChannelVisible(msg, post, currentUserId) ==
    IF msg.channel_type = DM_CHANNEL
    THEN <<Act("makeDirectChannelVisibleIfNecessary",
               getUserIdFromChannelName(currentUserId, msg.channel_name), NoId)>>
    ELSE IF msg.channel_type = GM_CHANNEL
    THEN <<Act("makeGroupMessageVisibleIfNecessary", post.channel_id, NoId)>>
    ELSE <<>>

\* markChannelAsRead(channelId, prevChannelId, updateLastViewedAt): what it
\* dispatches on the counters; mc is the counters at that moment. What is
\* unread of the channel is taken from its unread counter, so that nothing
\* of it is unread any more.
markChannelAsRead(mc, channelId) ==
    <<Act("DECREMENT_UNREAD_MSG_COUNT", channelId, mc[channelId].unread)>>

\* markChannelAsUnread(teamId, channelId, mentions): what it dispatches on
\* the counters, one more message of the channel and one more unread.
markChannelAsUnread(channelId) ==
    <<Act("INCREMENT_TOTAL_MSG_COUNT", channelId, 1),
      Act("INCREMENT_UNREAD_MSG_COUNT", channelId, 1)>>

\* The counter actions the channel operations that lastPostActions
\* dispatches dispatch in turn (markChannelAsViewed touches no counter).
RECURSIVE ChannelMarkActions(_, _)
ChannelMarkActions(mc, marks) ==
    IF marks = <<>> THEN <<>>
    ELSE LET mark == Head(marks)
             own == IF mark.type = "markChannelAsRead"
                    THEN markChannelAsRead(mc, mark.id)
                    ELSE IF mark.type = "markChannelAsUnread"
                    THEN markChannelAsUnread(mark.id)
                    ELSE <<>>
         IN  own \o ChannelMarkActions(ReduceCounts(mc, own), Tail(marks))

\* The posts a real-time event may carry: what the server holds.
OwnEventPosts == {sp.post : sp \in serverPosts}
\* The server announces a post of another user once, before the store has it.
NewForeignPosts == {post \in ForeignPosts : post.id \notin DOMAIN posts}

\* A membership record of the store: undefined, {} or a loaded record.
MemberStates == {"undefined", "{}", "member"}
\* Object.keys(member).length
ObjectKeysLength(member) == IF member = "{}" THEN 0 ELSE 1
\* member.constructor: the function Object, for {} as for a loaded record.
ConstructorOf(member) == "function Object() { [native code] }"

\* handleNewPost: myChannelMember && Object.keys(myChannelMember).length === 0
\* && myChannelMember.constructor === 'Object'
FetchesMember(member) ==
    /\ member # "undefined"
    /\ ObjectKeysLength(member) = 0
    /\ ConstructorOf(member) = "Object"

\* handleNewPost, completePostReceive and lastPostActions. getMyChannelMember
\* is awaited (modelled as answered at once); getPostThread is dispatched
\* and runs up to its own await, it is not awaited; the channel operations
\* that mark the channel run when they are dispatched and change its
\* counters; the channel of a direct or group message is made visible last.
handleNewPost(msg) ==
    LET post == msg.post
        member == IF FetchesMember(myMembers[post.channel_id])
                  THEN <<Act("getMyChannelMember", post.channel_id, NoId)>>
                  ELSE <<>>
        thread == IF FetchesThread(posts, post)
                  THEN GetPostThreadStart(post.root_id) ELSE <<>>
        marks == LastPostMarks(post, CurrentUserId, CurrentChannelId, msg)
        visible == ChannelVisible(msg, post, CurrentUserId)
        actions == member \o thread \o LastPostReceipt(post, now) \o marks
                       \o visible
    IN  /\ threadReqs' = IF FetchesThread(posts, post)
                         THEN Append(threadReqs, ThreadReq(post.root_id, TRUE))
                         ELSE threadReqs
        /\ myMembers' = IF FetchesMember(myMembers[post.channel_id])
                        THEN [myMembers EXCEPT ![post.channel_id] = "member"]
                        ELSE myMembers
        /\ Dispatch(member \o thread \o LastPostReceipt(post, now) \o marks
                        \o ChannelMarkActions(msgCounts, marks) \o visible)
        /\ lastOp' = OpEvent("handleNewPost", post.id, LogOf(actions), "data",
                             marks, msg, myMembers[post.channel_id])
        /\ UNCHANGED <<cached, calls, now, outbox, immediate, serverPosts, failedSends, ops>>

\* Posts the server announces in SpecEvents: of either user, in either
\* channel, regular, from a webhook, a system post that is shown and one
\* that is ignored, and a reply to a post the store does not hold.
EventId(n) == <<"evt", n>>
EventKinds == {"", "webhook", HEADER_CHANGE, JOIN_CHANNEL}
EventPost(n, user, channel, kind, root) ==
    LET base == Post(EventId(n), NoId, channel, user, root, ServerTime(n),
                     IF kind \in {HEADER_CHANGE, JOIN_CHANNEL} THEN kind ELSE "",
                     NoSystemPostIds)
    IN  IF kind = "webhook" THEN [base EXCEPT !.from_webhook = TRUE] ELSE base
EventPosts(n) ==
    {EventPost(n, user, channel, kind, NoId) :
        user \in {CurrentUserId, OtherUserId}, channel \in Channels,
        kind \in EventKinds}
    \cup {EventPost(n, OtherUserId, channel, "", ForeignId(1)) : channel \in Channels}
\* The channels of the events: a public channel of the team, a direct channel
\* named with the current user first or last, and a group channel.
EventChannels ==
    {<<OPEN_CHANNEL, <<"town-square">>, TeamId>>,
     <<DM_CHANNEL, <<CurrentUserId, OtherUserId>>, "">>,
     <<DM_CHANNEL, <<OtherUserId, CurrentUserId>>, "">>,
     <<GM_CHANNEL, <<"group">>, "">>}
EventCount == Cardinality({id \in DOMAIN posts : id[1] = "evt"})
EventMsgs ==
    IF EventCount < MaxEvents
    THEN {Msg(post, mentions, kind[1], kind[2], kind[3]) :
             post \in EventPosts(EventCount + 1), mentions \in MentionSets,
             kind \in EventChannels}
    ELSE {}

(* --------------------------------------------------- createPostImmediately *)

\* Mutant: a pending id supplied with the draft is kept, as createPost does.
CreatePostImmediatelyPendingIdOfDraft(post, timestamp) ==
    CreatePostPendingId(post, timestamp)

\* const pendingPostId = `${currentUserId}:${timestamp}`
CreatePostImmediatelyPendingId(post, timestamp) ==
    PendingId(CurrentUserId, timestamp)

\* createPostImmediately(post, files) up to its await: the files, if any, and
\* the optimistic record are dispatched and Client4.createPost is called; the
\* server answers with resp.
createPostImmediately(post, files, resp) ==
    LET timestamp == now
        pendingPostId == CreatePostImmediatelyPendingId(post, timestamp)
        newPost == WithFiles(CreatePostNewPost(post, pendingPostId, timestamp),
                             files)
        actions == FilesReceipt(pendingPostId, files)
                       \o <<receivedNewPost(OptimisticRecord(pendingPostId, newPost))>>
        n == Cardinality(serverPosts) + 1
        created == ServerCreate(newPost, n, now)
    IN  /\ Len(immediate) < MaxImmediate
        /\ ops < MaxOps
        /\ ops' = ops + 1
        /\ resp = "ok" => n <= MaxServerPosts
        /\ Dispatch(actions)
        /\ serverPosts' = IF resp = "ok"
                          THEN serverPosts \cup {[pid |-> pendingPostId, post |-> created]}
                          ELSE serverPosts
        /\ immediate' = Append(immediate,
                            [id |-> pendingPostId, post |-> newPost, resp |-> resp,
                             payload |-> IF resp = "ok" THEN created ELSE newPost,
                             files |-> files])
        /\ lastOp' = Op("createPostImmediately", pendingPostId, NoId, FALSE,
                        LogOf(actions), <<>>, "await")
        /\ UNCHANGED <<cached, calls, myMembers, now, outbox, threadReqs, failedSends>>

\* Mutant: the created post's id is not assigned to the local record.
CreatePostImmediatelyNotPromoted(newPost, pendingPostId, created, files, resp) ==
    IF resp = "ok"
    THEN <<receivedPost(OptimisticRecord(pendingPostId, newPost)),
           Plain("CREATE_POST_SUCCESS"),
           Act("INCREMENT_TOTAL_MSG_COUNT", newPost.channel_id, 1),
           Act("DECREMENT_UNREAD_MSG_COUNT", newPost.channel_id, 1),
           Act("RECEIVED_FILES_FOR_POST", pendingPostId, files)>>
    ELSE <<forceLogoutIfNecessary(resp),
           Act("CREATE_POST_FAILURE", NoId, resp),
           Thunk("removePost", OptimisticRecord(pendingPostId, newPost).id),
           Thunk("logError", NoId)>>

\* createPostImmediately after its await, Client4.createPost having answered
\* with created (resp is "ok") or failed with the error resp. On success
\* newPost.id = created.id and the batch is dispatched; files is an array, so
\* that `if (files)` holds. The catch block calls forceLogoutIfNecessary and
\* dispatches a batch whose removePost thunk is about
\* {id: pendingPostId, ...newPost}.
CreatePostImmediatelyActions(newPost, pendingPostId, created, files, resp) ==
    IF resp = "ok"
    THEN <<receivedPost(SpreadFields(newPost, [id |-> created.id])),
           Plain("CREATE_POST_SUCCESS"),
           Act("INCREMENT_TOTAL_MSG_COUNT", newPost.channel_id, 1),
           Act("DECREMENT_UNREAD_MSG_COUNT", newPost.channel_id, 1),
           Act("RECEIVED_FILES_FOR_POST", created.id, files)>>
    ELSE <<forceLogoutIfNecessary(resp),
           Act("CREATE_POST_FAILURE", NoId, resp),
           Thunk("removePost", OptimisticRecord(pendingPostId, newPost).id),
           Thunk("logError", NoId)>>

\* The remote create of the i-th createPostImmediately call in flight
\* settles and the call resumes.
createPostImmediatelyDone(i) ==
    /\ i \in 1..Len(immediate)
    /\ LET c == immediate[i]
           ok == c.resp = "ok"
           actions == CreatePostImmediatelyActions(c.post, c.id, c.payload,
                                                   c.files, c.resp)
       IN  /\ Dispatch(actions)
           /\ lastOp' = Op("createPostImmediatelyDone", c.id,
                           IF ok THEN c.payload.id ELSE NoId, FALSE,
                           LogOf(actions), <<>>, IF ok THEN "data" ELSE "error")
    /\ immediate' = Without(immediate, i)
    /\ UNCHANGED <<cached, calls, myMembers, now, outbox, threadReqs, serverPosts, failedSends, ops>>

Tick ==
    /\ now < MaxClock
    /\ now' = now + 1
    /\ UNCHANGED <<storedFiles, reactions, msgCounts, cached, calls, myMembers, posts, pendingPostIds, outbox, immediate, threadReqs,
                   serverPosts, failedSends, ops, lastOp>>

(* ------------------------------------------------------------ fetch family *)

\* Posts of the channel's history on the server, newest first: k = MaxHistory
\* down to 1.
HistoryId(k) == <<"hist", k>>
HistoryPost(k) ==
    Post(HistoryId(k), NoId, CurrentChannelId, OtherUserId, NoId, ServerTime(k),
         "", NoSystemPostIds)
HistoryIds == {HistoryId(k) : k \in 1..MaxHistory}

RECURSIVE OrderOf(_, _)
OrderOf(hi, lo) ==
    IF hi < lo THEN <<>> ELSE <<HistoryId(hi)>> \o OrderOf(hi - 1, lo)

\* A CombinedPostList the remote client answers with: the posts hi down to
\* lo and the two boundary markers. The server writes the keys of the
\* mapping in ascending order.
PostList(hi, lo, next, prev) ==
    [order |-> OrderOf(hi, lo),
     posts |-> [i \in 1..(hi - lo + 1) |->
                   Entry(HistoryId(lo + i - 1), HistoryPost(lo + i - 1))],
     next_post_id |-> next,
     prev_post_id |-> prev]

\* A boundary marker is empty or names the neighbouring post.
Markers(k) == {NoId} \cup {HistoryId(j) : j \in {k} \cap (1..MaxHistory)}

\* The pages of at most PerPage posts whose newest post is in his and whose
\* oldest post is in los (lo = hi + 1: an empty page).
PostLists(his, los) ==
    UNION {{PostList(r[1], r[2], next, prev) :
               next \in Markers(r[1] + 1), prev \in Markers(r[2] - 1)} :
           r \in {q \in his \X los : q[2] <= q[1] + 1 /\ q[1] - q[2] < PerPage}}

\* The answers of the remote client the model draws from: the page after
\* (before) a post starts (ends) next to it; the thread of a post of the
\* history is the post itself.
Responses(call, part) ==
    LET p == IF call.postId = NoId THEN 0 ELSE call.postId[2]
    IN  CASE part = "post" -> {HistoryPost(p)}
          [] part = "thread" -> {PostList(p, p, NoId, NoId)}
          [] part = "after" -> PostLists(p..MaxHistory, {p + 1})
          [] part = "before" -> PostLists({p - 1}, 1..p)
          [] OTHER -> PostLists(0..MaxHistory, 1..(MaxHistory + 1))

receivedPostsAfter(list, channelId, afterPostId, recent) ==
    [type |-> "RECEIVED_POSTS_AFTER", id |-> channelId, data |-> list,
     afterPostId |-> afterPostId, recent |-> recent]
receivedPostsBefore(list, channelId, beforePostId, oldest) ==
    [type |-> "RECEIVED_POSTS_BEFORE", id |-> channelId, data |-> list,
     beforePostId |-> beforePostId, oldest |-> oldest]
receivedPostsSince(list, channelId) ==
    [type |-> "RECEIVED_POSTS_SINCE", id |-> channelId, data |-> list]
receivedPostsInChannel(list, channelId, recent, oldest) ==
    [type |-> "RECEIVED_POSTS_IN_CHANNEL", id |-> channelId, data |-> list,
     recent |-> recent, oldest |-> oldest]

\* The catch block of getPosts, getPostsUnread, getPostsSince, getPostsBefore,
\* getPostsAfter and getPostsAround.
FetchFailure(error) == <<forceLogoutIfNecessary(error), logError(error)>>

\* Mutant: the recent flag of getPosts is read off the boundary marker.
getPostsActionsByMarker(channelId, page, list) ==
    <<receivedPosts(list),
      receivedPostsInChannel(list, channelId, list.next_post_id = NoId,
                             list.prev_post_id = NoId)>>

getPostsActions(channelId, page, list) ==
    <<receivedPosts(list),
      receivedPostsInChannel(list, channelId, page = 0, list.prev_post_id = NoId)>>

getPostsUnreadActions(channelId, list) ==
    <<receivedPosts(list),
      receivedPostsInChannel(list, channelId, list.next_post_id = NoId,
                             list.prev_post_id = NoId),
      [receivedPosts(list) EXCEPT !.id = channelId]>>

getPostsSinceActions(channelId, list) ==
    <<receivedPosts(list),
      receivedPostsSince(list, channelId),
      Plain("GET_POSTS_SINCE_SUCCESS")>>

getPostsBeforeActions(channelId, postId, list) ==
    <<receivedPosts(list),
      receivedPostsBefore(list, channelId, postId, list.prev_post_id = NoId)>>

getPostsAfterActions(channelId, postId, list) ==
    <<receivedPosts(list),
      receivedPostsAfter(list, channelId, postId, list.next_post_id = NoId)>>

\* Mutant: the pivot is put in front of the after page.
getPostsAroundPivotFirst(postId, after, thread, before) ==
    [posts |-> Spread(Spread(after.posts, thread.posts), before.posts),
     order |-> <<postId>> \o after.order \o before.order,
     next_post_id |-> after.next_post_id,
     prev_post_id |-> before.prev_post_id]

\* Mutant: the posts of the thread response are left out of the mapping.
getPostsAroundPostsOfPages(postId, after, thread, before) ==
    [posts |-> Spread(after.posts, before.posts),
     order |-> after.order \o <<postId>> \o before.order,
     next_post_id |-> after.next_post_id,
     prev_post_id |-> before.prev_post_id]

\* getPostsAround: the combined post list.
getPostsAroundPosts(postId, after, thread, before) ==
    [posts |-> Spread(Spread(after.posts, thread.posts), before.posts),
     order |-> after.order \o <<postId>> \o before.order,
     next_post_id |-> after.next_post_id,
     prev_post_id |-> before.prev_post_id]

getPostsAroundActions(channelId, postId, after, thread, before) ==
    LET list == getPostsAroundPosts(postId, after, thread, before)
    IN  <<receivedPosts(list),
          receivedPostsInChannel(list, channelId, after.next_post_id = NoId,
                                 before.prev_post_id = NoId)>>

\* What the operation dispatches once every remote call it awaits has been
\* answered.
FetchSuccess(call, parts) ==
    CASE call.op = "getPost" ->
            <<receivedPost(parts.post[1]), Plain("GET_POSTS_SUCCESS")>>
      [] call.op = "getPosts" ->
            getPostsActions(call.channelId, call.page, parts.posts[1])
      [] call.op = "getPostsUnread" ->
            getPostsUnreadActions(call.channelId, parts.posts[1])
      [] call.op = "getPostsSince" ->
            getPostsSinceActions(call.channelId, parts.posts[1])
      [] call.op = "getPostsBefore" ->
            getPostsBeforeActions(call.channelId, call.postId, parts.before[1])
      [] call.op = "getPostsAfter" ->
            getPostsAfterActions(call.channelId, call.postId, parts.after[1])
      [] call.op = "getPostsAround" ->
            getPostsAroundActions(call.channelId, call.postId, parts.after[1],
                                  parts.thread[1], parts.before[1])

RECURSIVE Answered(_)
\* What the answered calls of an operation hold, as posts-received actions.
Answered(parts) ==
    IF DOMAIN parts = {} THEN <<>>
    ELSE LET x == CHOOSE x \in DOMAIN parts : TRUE
         IN  (IF parts[x] = <<>> THEN <<>> ELSE <<receivedPosts(parts[x][1])>>)
             \o Answered([y \in (DOMAIN parts) \ {x} |-> parts[y]])

\* Mutant: the calls that were answered are committed before the failure is
\* reported.
FetchRejectedPartial(call, error) == Answered(call.parts) \o FetchFailure(error)

\* What the operation dispatches when one of the remote calls it awaits
\* fails: Promise.all rejects with the first failure.
FetchRejected(call, error) ==
    IF call.op = "getPost"
    THEN <<forceLogoutIfNecessary(error),
           Act("GET_POSTS_FAILURE", NoId, error),
           Thunk("logError", NoId)>>
    ELSE FetchFailure(error)

(* ------------------------------------------------------ pinPost, unpinPost *)

\* Mutant: the pinned flag is applied when the call is issued.
PinPostRequestOptimistic(ps, postId, pinned) ==
    <<Plain("EDIT_POST_REQUEST")>>
    \o (IF postId \in DOMAIN ps
        THEN <<receivedPost([ps[postId] EXCEPT !.is_pinned = pinned])>>
        ELSE <<>>)

\* pinPost / unpinPost up to the await: the request marker.
PinPostRequest(ps, postId, pinned) == <<Plain("EDIT_POST_REQUEST")>>

\* Mutant: the update timestamp is left as it was.
PinPostSuccessStale(ps, postId, pinned, timestamp) ==
    <<Plain("EDIT_POST_SUCCESS")>>
    \o (IF postId \in DOMAIN ps
        THEN <<receivedPost([ps[postId] EXCEPT !.is_pinned = pinned])>>
        ELSE <<>>)

\* pinPost / unpinPost after the await: the batch it dispatches; ps is the
\* store at that moment (Selectors.getPost(getState(), postId)).
PinPostSuccess(ps, postId, pinned, timestamp) ==
    <<Plain("EDIT_POST_SUCCESS")>>
    \o (IF postId \in DOMAIN ps
        THEN <<receivedPost([ps[postId] EXCEPT !.is_pinned = pinned,
                                               !.update_at = timestamp])>>
        ELSE <<>>)

\* The catch block of pinPost / unpinPost: the batch it dispatches.
PinPostFailure(error) ==
    <<Act("EDIT_POST_FAILURE", NoId, error), Thunk("logError", NoId)>>

\* Mutant: the local copy is the one the store held when the call was
\* issued.
PinPostStateAtStart(ps, call) ==
    IF call.was = <<>> THEN StoreDrop(ps, call.postId)
    ELSE StorePut(ps, call.was[1])

\* getState() after the await: the store as it is when the call returns.
PinPostState(ps, call) == ps

\* pinPost / unpinPost up to the await. (was: what the store held for the
\* post at that moment, kept with the call in flight for the record; the
\* operation itself keeps nothing.)
PinAwait(op, postId, pinned) ==
    LET actions == PinPostRequest(posts, postId, pinned)
    IN  /\ ops < MaxPins
        /\ ops' = ops + 1
        /\ calls' = Append(calls,
                           [op |-> op, channelId |-> NoId, postId |-> postId,
                            page |-> 0, parts |-> <<>>,
                            was |-> IF postId \in DOMAIN posts
                                    THEN <<posts[postId]>> ELSE <<>>])
        /\ Dispatch(actions)
        /\ lastOp' = Op(op, postId, NoId, FALSE, LogOf(actions), <<>>, "await")
        /\ UNCHANGED <<cached, now, outbox, immediate, threadReqs, serverPosts,
                       failedSends, myMembers>>

pinPost(postId) == PinAwait("pinPost", postId, TRUE)
unpinPost(postId) == PinAwait("unpinPost", postId, FALSE)

\* Client4.pinPost / Client4.unpinPost succeeded for the i-th call in flight.
PinResolve(i) ==
    /\ i \in 1..Len(calls)
    /\ calls[i].op \in {"pinPost", "unpinPost"}
    /\ LET call == calls[i]
           actions == PinPostSuccess(PinPostState(posts, call), call.postId,
                                     call.op = "pinPost", now)
       IN  /\ Dispatch(actions)
           /\ lastOp' = OpFetch(call.op, call.postId, LogOf(actions), "data",
                                actions, call.was, 0)
    /\ calls' = Without(calls, i)
    /\ UNCHANGED <<cached, now, outbox, immediate, threadReqs, serverPosts, failedSends,
                   ops, myMembers>>

\* Client4.pinPost / Client4.unpinPost failed for the i-th call in flight.
PinReject(i, error) ==
    /\ i \in 1..Len(calls)
    /\ calls[i].op \in {"pinPost", "unpinPost"}
    /\ LET call == calls[i]
           actions == PinPostFailure(error)
       IN  /\ Dispatch(actions)
           /\ lastOp' = Op(call.op, call.postId, NoId, FALSE,
                           LogOf(<<forceLogoutIfNecessary(error)>> \o actions),
                           <<>>, "error")
    /\ calls' = Without(calls, i)
    /\ UNCHANGED <<cached, now, outbox, immediate, threadReqs, serverPosts, failedSends,
                   ops, myMembers>>

(* -------------------------------------------------------------- editPost *)

\* The text an edit writes.
EditedMessage == <<"h", "i">>

\* What a caller hands to editPost: the id of the post and its new message.
PostPatch(postId, message) == [id |-> postId, message |-> message]
PostPatches == {PostPatch(postId, EditedMessage) : postId \in ForeignIds}

\* Client4.patchPost(post): what the server may answer with, the post as it
\* holds it (pinned there or not) with the fields of the patch and a new
\* update timestamp.
PatchedPosts(patch, timestamp) ==
    {SpreadFields(post, [message |-> patch.message,
                         update_at |-> ServerTime(timestamp),
                         is_pinned |-> pinned]) :
        post \in {p \in ForeignPosts : p.id = patch.id}, pinned \in BOOLEAN}

\* bindClientFunc up to the await: the request marker.
BindRequest(onRequest) == <<Plain(onRequest)>>

\* bindClientFunc after the await: one action per type of onSuccess, each
\* carrying the data the client call returned.
BindSuccess(onSuccess, data) ==
    [k \in 1..Len(onSuccess) |-> Act(onSuccess[k], data.id, data)]

\* bindClientFunc when the client call throws: the batch it dispatches after
\* the session check.
BindFailure(onFailure, error) ==
    <<Thunk("logError", NoId), Act(onFailure, NoId, error)>>

\* No call of these operations is in flight.
NoCallOf(opNames) == \A i \in 1..Len(calls) : calls[i].op \notin opNames

\* editPost(post) up to the await.
editPost(post) ==
    LET actions == BindRequest("EDIT_POST_REQUEST")
    IN  /\ ops < MaxPins
        /\ ops' = ops + 1
        /\ calls' = Append(calls,
                           [op |-> "editPost", channelId |-> NoId,
                            postId |-> post.id, page |-> 0, parts |-> <<>>,
                            was |-> <<>>, params |-> post])
        /\ Dispatch(actions)
        /\ lastOp' = Op("editPost", post.id, NoId, FALSE, LogOf(actions), <<>>,
                        "await")
        /\ UNCHANGED <<cached, now, outbox, immediate, threadReqs, serverPosts,
                       failedSends, myMembers>>

\* Client4.patchPost answered the i-th call in flight with data.
EditResolve(i, data) ==
    /\ i \in 1..Len(calls)
    /\ calls[i].op = "editPost"
    /\ data \in PatchedPosts(calls[i].params, now)
    /\ LET call == calls[i]
           actions == BindSuccess(<<"RECEIVED_POST", "EDIT_POST_SUCCESS">>, data)
       IN  /\ Dispatch(actions)
           /\ lastOp' = OpFetch("editPost", call.postId, LogOf(actions), "data",
                                actions, <<>>, 0)
    /\ calls' = Without(calls, i)
    /\ UNCHANGED <<cached, now, outbox, immediate, threadReqs, serverPosts, failedSends,
                   ops, myMembers>>

\* Client4.patchPost failed for the i-th call in flight.
EditReject(i, error) ==
    /\ i \in 1..Len(calls)
    /\ calls[i].op = "editPost"
    /\ LET call == calls[i]
           actions == BindFailure("EDIT_POST_FAILURE", error)
       IN  /\ Dispatch(actions)
           /\ lastOp' = Op("editPost", call.postId, NoId, FALSE,
                           LogOf(<<forceLogoutIfNecessary(error)>> \o actions),
                           <<>>, "error")
    /\ calls' = Without(calls, i)
    /\ UNCHANGED <<cached, now, outbox, immediate, threadReqs, serverPosts, failedSends,
                   ops, myMembers>>

(* ---------------------------------------------------------- reactions *)

\* A reaction: the (user, post, emoji name) triple.
Reaction(userId, postId, emojiName) ==
    [user_id |-> userId, post_id |-> postId, emoji_name |-> emojiName]

\* Texts (messages, user names, emoji names) are sequences of characters.
Smile == <<"s", "m", "i", "l", "e">>
Corgi == <<"c", "o", "r", "g", "i">>

\* The emoji names used: a built-in one and a custom one.
SystemEmojis == {Smile}
EmojiNames == {Smile, Corgi}

\* (A variant that adds the reaction before the remote call is made.)
ReactionRequestOptimistic(userId, postId, emojiName) ==
    <<Act("RECEIVED_REACTION", NoId, Reaction(userId, postId, emojiName))>>

\* What addReaction / removeReaction dispatch before awaiting the remote
\* client: nothing.
ReactionRequest(userId, postId, emojiName) == <<>>

\* What addReaction dispatches once the remote client answered with the
\* reaction.
addReactionSuccess(reaction) == <<Act("RECEIVED_REACTION", NoId, reaction)>>

\* What removeReaction dispatches once the remote client answered.
removeReactionSuccess(userId, postId, emojiName) ==
    <<Act("REACTION_DELETED", NoId, Reaction(userId, postId, emojiName))>>

\* The catch block of addReaction, removeReaction and getReactionsForPost:
\* what it calls and dispatches, in order.
ReactionFailure(error) == <<forceLogoutIfNecessary(error), logError(error)>>

\* The custom emoji getReactionsForPost asks for: those of the reactions that
\* are neither built in, nor known not to exist, nor cached.
ReactionEmojisToLoad(list) ==
    {list[i].emoji_name : i \in 1..Len(list)}
        \ (SystemEmojis \cup cached.nonExistentEmoji \cup cached.customEmojis)

\* What getReactionsForPost calls and dispatches once the remote client
\* answered with the reactions of the post.
getReactionsForPostSuccess(postId, list) ==
    (IF Len(list) > 0
     THEN <<Act("CALL:getCustomEmojisByName", NoId, ReactionEmojisToLoad(list))>>
     ELSE <<>>)
    \o <<Act("RECEIVED_REACTIONS", postId, list)>>

\* What getReactionsForPost returns on success: the reactions themselves.
getReactionsForPostReturn(list) == "reactions"

\* addReaction, removeReaction and getReactionsForPost up to their await of
\* the remote client.
ReactionAwait(op, postId, emojiName) ==
    LET actions == ReactionRequest(CurrentUserId, postId, emojiName)
    IN  /\ ops < MaxReactions
        /\ ops' = ops + 1
        /\ calls' = Append(calls,
                           [op |-> op, channelId |-> NoId, postId |-> postId,
                            page |-> 0, parts |-> <<>>,
                            emojiName |-> emojiName])
        /\ Dispatch(actions)
        /\ lastOp' = Op(op, postId, NoId, FALSE, LogOf(actions), <<>>, "await")
        /\ UNCHANGED <<cached, now, outbox, immediate, threadReqs, serverPosts,
                       failedSends, myMembers>>

addReaction(postId, emojiName) == ReactionAwait("addReaction", postId, emojiName)
removeReaction(postId, emojiName) ==
    ReactionAwait("removeReaction", postId, emojiName)
getReactionsForPost(postId) ==
    /\ ops < MaxReactions
    /\ ops' = ops + 1
    /\ calls' = Append(calls,
                       [op |-> "getReactionsForPost", channelId |-> NoId,
                        postId |-> postId, page |-> 0, parts |-> <<>>,
                        emojiName |-> <<>>])
    /\ lastOp' = Op("getReactionsForPost", postId, NoId, FALSE, <<>>, <<>>,
                    "await")
    /\ UNCHANGED <<storedFiles, reactions, msgCounts, cached, now, posts, pendingPostIds,
                   outbox, immediate, threadReqs, serverPosts, failedSends,
                   myMembers>>

ReactionOps == {"addReaction", "removeReaction", "getReactionsForPost"}

\* Client4.addReaction / Client4.removeReaction succeeded for the i-th call
\* in flight.
ReactionResolve(i) ==
    /\ i \in 1..Len(calls)
    /\ calls[i].op \in {"addReaction", "removeReaction"}
    /\ LET call == calls[i]
           actions ==
               IF call.op = "addReaction"
               THEN addReactionSuccess(
                        Reaction(CurrentUserId, call.postId, call.emojiName))
               ELSE removeReactionSuccess(CurrentUserId, call.postId,
                                          call.emojiName)
       IN  /\ Dispatch(actions)
           /\ lastOp' = Op(call.op, call.postId, NoId, FALSE, LogOf(actions),
                           <<>>, "data")
    /\ calls' = Without(calls, i)
    /\ UNCHANGED <<cached, now, outbox, immediate, threadReqs, serverPosts,
                   failedSends, ops, myMembers>>

\* Client4.getReactionsForPost answered with the reactions of the post.
getReactionsForPostResolve(i, list) ==
    /\ i \in 1..Len(calls)
    /\ calls[i].op = "getReactionsForPost"
    /\ LET call == calls[i]
           actions == getReactionsForPostSuccess(call.postId, list)
       IN  /\ \A k \in 1..Len(list) : list[k].post_id = call.postId
           /\ Dispatch(actions)
           /\ lastOp' = Op(call.op, call.postId, NoId, FALSE, LogOf(actions),
                           <<>>, getReactionsForPostReturn(list))
    /\ calls' = Without(calls, i)
    /\ UNCHANGED <<cached, now, outbox, immediate, threadReqs, serverPosts,
                   failedSends, ops, myMembers>>

\* The remote call of addReaction, removeReaction or getReactionsForPost
\* failed.
ReactionReject(i, error) ==
    /\ i \in 1..Len(calls)
    /\ calls[i].op \in ReactionOps
    /\ LET call == calls[i]
           actions == ReactionFailure(error)
       IN  /\ Dispatch(actions)
           /\ lastOp' = Op(call.op, call.postId, NoId, FALSE, LogOf(actions),
                           <<>>, "error")
    /\ calls' = Without(calls, i)
    /\ UNCHANGED <<cached, now, outbox, immediate, threadReqs, serverPosts,
                   failedSends, ops, myMembers>>

(* --------------------------------------------------------------- text *)

LowerCase ==
    {"a", "b", "c", "d", "e", "f", "g", "h", "i", "j", "k", "l", "m", "n", "o",
     "p", "q", "r", "s", "t", "u", "v", "w", "x", "y", "z"}
UpperCase ==
    {"A", "B", "C", "D", "E", "F", "G", "H", "I", "J", "K", "L", "M", "N", "O",
     "P", "Q", "R", "S", "T", "U", "V", "W", "X", "Y", "Z"}
Digits == {"0", "1", "2", "3", "4", "5", "6", "7", "8", "9"}

\* [a-z0-9_] under the i flag, which is also what \B takes for a word
\* character.
WordChars == LowerCase \cup UpperCase \cup Digits \cup {"_"}
\* [.-]
TrailingChars == {".", "-"}
\* [a-z0-9_.-] under the i flag
MentionChars == WordChars \cup TrailingChars
\* [A-Za-z0-9_-]
EmojiChars == WordChars \cup {"-"}

\* text.includes(c)
Includes(text, c) == \E i \in 1..Len(text) : text[i] = c

\* The index of the last character of the longest run of characters of the
\* class that starts at index i (i - 1 when the run is empty).
RECURSIVE RunEnd(_, _, _)
RunEnd(text, i, class) ==
    IF i <= Len(text) /\ text[i] \in class
    THEN RunEnd(text, i + 1, class)
    ELSE i - 1

\* The text without the characters of the class it ends with.
RECURSIVE TrimEnd(_, _)
TrimEnd(text, class) ==
    IF text # <<>> /\ text[Len(text)] \in class
    THEN TrimEnd(SubSeq(text, 1, Len(text) - 1), class)
    ELSE text

\* The successive matches of /\B@(([a-z0-9_.-]*[a-z0-9_])[.-]*)/gi in the
\* text from index i on, each as <<match[1], match[2]>>: the "@" is at the
\* start or follows a character that is not a word character; match[1] is the
\* longest run of mention characters after it and match[2] is match[1]
\* without the punctuation it ends with, which must leave something; the
\* search goes on after the match.
RECURSIVE MentionMatches(_, _)
MentionMatches(text, i) ==
    IF i > Len(text) THEN <<>>
    ELSE LET j == RunEnd(text, i + 1, MentionChars)
             m1 == SubSeq(text, i + 1, j)
             m2 == TrimEnd(m1, TrailingChars)
         IN  IF /\ text[i] = "@"
                /\ (i = 1 \/ text[i - 1] \notin WordChars)
                /\ m2 # <<>>
             THEN <<<<m1, m2>>>> \o MentionMatches(text, j + 1)
             ELSE MentionMatches(text, i + 1)

\* The successive matches of /:([A-Za-z0-9_-]+):/g in the text from index i
\* on, each as match[1].
RECURSIVE EmojiMatches(_, _)
EmojiMatches(text, i) ==
    IF i > Len(text) THEN <<>>
    ELSE LET j == RunEnd(text, i + 1, EmojiChars)
         IN  IF /\ text[i] = ":"
                /\ j > i
                /\ j < Len(text)
                /\ text[j + 1] = ":"
             THEN <<SubSeq(text, i + 1, j)>> \o EmojiMatches(text, j + 2)
             ELSE EmojiMatches(text, i + 1)

Range(seq) == {seq[i] : i \in 1..Len(seq)}

(* ------------------------------------------------ dependency prefetcher *)

All == <<"a", "l", "l">>
Channel == <<"c", "h", "a", "n", "n", "e", "l">>
Here == <<"h", "e", "r", "e">>
\* General.SPECIAL_MENTIONS
SPECIAL_MENTIONS == {All, Channel, Here}

\* getUsersByUsername(state): a plain object keyed by user name, as the set
\* of its own keys.
getUsersByUsername(state) == {profile.username : profile \in state.profiles}

\* The properties a plain object inherits from Object.prototype: constructor,
\* hasOwnProperty, isPrototypeOf, propertyIsEnumerable, toLocaleString,
\* toString, valueOf, __proto__, __defineGetter__, __defineSetter__,
\* __lookupGetter__, __lookupSetter__. Each is a function or an object.
ValueOf == <<"v", "a", "l", "u", "e", "O", "f">>
ObjectPrototypeKeys ==
    {<<"c", "o", "n", "s", "t", "r", "u", "c", "t", "o", "r">>,
     <<"h", "a", "s", "O", "w", "n", "P", "r", "o", "p", "e", "r", "t",
       "y">>,
     <<"i", "s", "P", "r", "o", "t", "o", "t", "y", "p", "e", "O", "f">>,
     <<"p", "r", "o", "p", "e", "r", "t", "y", "I", "s", "E", "n", "u",
       "m", "e", "r", "a", "b", "l", "e">>,
     <<"t", "o", "L", "o", "c", "a", "l", "e", "S", "t", "r", "i", "n",
       "g">>,
     <<"t", "o", "S", "t", "r", "i", "n", "g">>,
     <<"v", "a", "l", "u", "e", "O", "f">>,
     <<"_", "_", "p", "r", "o", "t", "o", "_", "_">>,
     <<"_", "_", "d", "e", "f", "i", "n", "e", "G", "e", "t", "t", "e",
       "r", "_", "_">>,
     <<"_", "_", "d", "e", "f", "i", "n", "e", "S", "e", "t", "t", "e",
       "r", "_", "_">>,
     <<"_", "_", "l", "o", "o", "k", "u", "p", "G", "e", "t", "t", "e",
       "r", "_", "_">>,
     <<"_", "_", "l", "o", "o", "k", "u", "p", "S", "e", "t", "t", "e",
       "r", "_", "_">>}

\* object[key] is truthy, for a plain object of truthy values given as the
\* set of its own keys: the key is its own or is inherited.
PropertyIsTruthy(ownKeys, key) ==
    key \in ownKeys \/ key \in ObjectPrototypeKeys

\* (A variant that looks the mention up only without its punctuation.)
MentionIsCachedCanonical(usersByUsername, match) == match[2] \in usersByUsername

\* usersByUsername[match[1]] || usersByUsername[match[2]]
MentionIsCached(usersByUsername, match) ==
    \/ PropertyIsTruthy(usersByUsername, match[1])
    \/ PropertyIsTruthy(usersByUsername, match[2])

\* General.SPECIAL_MENTIONS.indexOf(match[2]) !== -1
MentionIsSpecial(match) == match[2] \in SPECIAL_MENTIONS

\* usernamesToLoad.add(match[1]); usernamesToLoad.add(match[2])
MentionCandidates(match) == {match[1], match[2]}

getNeededAtMentionedUsernames(state, batch) ==
    LET usersByUsername == getUsersByUsername(state)
        needed(message) ==
            IF ~Includes(message, "@") THEN {}
            ELSE UNION {IF MentionIsSpecial(match) THEN {}
                        ELSE IF MentionIsCached(usersByUsername, match) THEN {}
                        ELSE MentionCandidates(match) :
                            match \in Range(MentionMatches(message, 1))}
    IN  UNION {needed(batch[i].message) : i \in 1..Len(batch)}

\* A post of a batch handed to the prefetcher: a post of the channel with
\* its message, whether it carries metadata, and its attachments.
WrittenPost(k, userId, message, metadata, attachments) ==
    [Post(HistoryId(k), NoId, CurrentChannelId, userId, NoId, ServerTime(k),
          "", NoSystemPostIds)
        EXCEPT !.message = message, !.metadata = metadata,
               !.attachments = attachments]

\* What a message is made of: mentions (a name and the punctuation that
\* follows it) and other words.
Bo == <<"b", "o">>
BDotO == <<"b", ".", "o">>
AllUpper == <<"A", "L", "L">>
MentionToken(name, punct) == [kind |-> "mention", name |-> name, punct |-> punct]
TextToken(text) == [kind |-> "text", name |-> text, punct |-> <<>>]
Tokens ==
    {MentionToken(name, punct) :
        name \in {All, BDotO, AllUpper, ValueOf},
        punct \in {<<>>, <<".">>, <<"-", ".">>}}
    \cup {TextToken(text) :
            text \in {<<"h", "i">>, <<"a", "@", "b", "o">>, <<"@">>,
                      <<"@", ".">>}}
Separators == {<<" ">>, <<",", " ">>}

\* The text of a token, and of a sequence of tokens.
Render(token) ==
    IF token.kind = "mention"
    THEN <<"@">> \o token.name \o token.punct
    ELSE token.name
RECURSIVE RenderAll(_, _)
RenderAll(tokens, separator) ==
    IF tokens = <<>> THEN <<>>
    ELSE IF Len(tokens) = 1 THEN Render(tokens[1])
    ELSE Render(tokens[1]) \o separator \o RenderAll(Tail(tokens), separator)

\* The messages of at most MaxTokens tokens, as their tokens.
RECURSIVE TokenSeqs(_)
TokenSeqs(n) ==
    IF n = 0 THEN {<<>>}
    ELSE LET shorter == TokenSeqs(n - 1)
         IN  shorter \cup {Append(tokens, token) :
                              tokens \in shorter, token \in Tokens}

\* getNeededAtMentionedUsernames(state, posts) by a caller of this layer, for
\* a batch of one post, or of two (the second one mentions "@b.o.").
scanMentions(tokens, separator, two) ==
    LET parts == <<tokens>>
                 \o (IF two THEN <<<<MentionToken(BDotO, <<".">>)>>>> ELSE <<>>)
        batch == [i \in 1..Len(parts) |->
                    WrittenPost(i, OtherUserId, RenderAll(parts[i], separator),
                                FALSE, <<>>)]
    IN  /\ lastOp.op = "init"
        /\ lastOp' = OpFetch("getNeededAtMentionedUsernames", NoId, <<>>, "",
                             getNeededAtMentionedUsernames(cached, batch),
                             parts, 0)
        /\ UNCHANGED <<storedFiles, reactions, msgCounts, cached, now, posts, pendingPostIds,
                       outbox, immediate, threadReqs, serverPosts, failedSends,
                       ops, calls, myMembers>>

\* parseNeededCustomEmojisFromText: the names between colons that are
\* neither built in, nor cached, nor known not to exist.
parseNeededCustomEmojisFromText(text, customEmojisByName, nonExistentEmoji) ==
    IF ~Includes(text, ":") THEN {}
    ELSE Range(EmojiMatches(text, 1))
            \ (SystemEmojis \cup customEmojisByName \cup nonExistentEmoji)

\* An attachment of a post: its fields (their values), pretext and text.
Attachment(fields, pretext, text) ==
    [fields |-> fields, pretext |-> pretext, text |-> text]

RECURSIVE JoinWithSpaces(_)
JoinWithSpaces(texts) ==
    IF texts = <<>> THEN <<>>
    ELSE <<" ">> \o Head(texts) \o JoinWithSpaces(Tail(texts))

RECURSIVE buildPostAttachmentText(_)
buildPostAttachmentText(attachments) ==
    IF attachments = <<>> THEN <<>>
    ELSE LET a == Head(attachments)
         IN  JoinWithSpaces(a.fields)
             \o (IF a.pretext # <<>> THEN <<" ">> \o a.pretext ELSE <<>>)
             \o (IF a.text # <<>> THEN <<" ">> \o a.text ELSE <<>>)
             \o buildPostAttachmentText(Tail(attachments))

\* (A variant in which the metadata of each post decides for that post.)
getNeededCustomEmojisPerPost(state, batch) ==
    LET needed(post) ==
            IF post.metadata THEN {}
            ELSE parseNeededCustomEmojisFromText(
                     post.message, state.customEmojis, state.nonExistentEmoji)
                 \cup parseNeededCustomEmojisFromText(
                          buildPostAttachmentText(post.attachments),
                          state.customEmojis, state.nonExistentEmoji)
    IN  IF state.EnableCustomEmoji # "true" THEN {}
        ELSE UNION {needed(batch[i]) : i \in 1..Len(batch)}

getNeededCustomEmojis(state, batch) ==
    LET fromMessage(post) ==
            IF Includes(post.message, ":")
            THEN parseNeededCustomEmojisFromText(
                     post.message, state.customEmojis, state.nonExistentEmoji)
            ELSE {}
        fromAttachments(post) ==
            IF post.attachments # <<>>
               /\ buildPostAttachmentText(post.attachments) # <<>>
            THEN parseNeededCustomEmojisFromText(
                     buildPostAttachmentText(post.attachments),
                     state.customEmojis, state.nonExistentEmoji)
            ELSE {}
    IN  IF state.EnableCustomEmoji # "true" THEN {}
        ELSE IF batch[1].metadata THEN {}
        ELSE UNION {fromMessage(batch[i]) \cup fromAttachments(batch[i]) :
                        i \in 1..Len(batch)}

\* getNeededCustomEmojis(state, posts) by a caller of this layer, for a
\* non-empty batch.
scanEmojis(batch) ==
    /\ lastOp.op = "init"
    /\ Len(batch) > 0
    /\ lastOp' = OpFetch("getNeededCustomEmojis", NoId, <<>>, "",
                         getNeededCustomEmojis(cached, batch), batch, 0)
    /\ UNCHANGED <<storedFiles, reactions, msgCounts, cached, now, posts, pendingPostIds,
                   outbox, immediate, threadReqs, serverPosts, failedSends,
                   ops, calls, myMembers>>

\* userIdsToLoad: the authors whose profile is not cached, the current user
\* left out.
UserIdsToLoad(state, batch) ==
    {batch[i].user_id : i \in 1..Len(batch)}
        \ ({CurrentUserId} \cup {profile.id : profile \in state.profiles})

\* (A variant that leaves the current user out of the statuses too.)
StatusesToLoadOfOthers(state, batch) ==
    {batch[i].user_id : i \in 1..Len(batch)}
        \ ({CurrentUserId} \cup state.statuses)

\* statusesToLoad: the authors whose status is not cached.
StatusesToLoad(state, batch) ==
    {batch[i].user_id : i \in 1..Len(batch)} \ state.statuses

\* One fetch of the prefetcher.
Fetch(op, args) == [op |-> op, args |-> args]
PrefetchOps == {"getProfilesByIds", "getStatusesByIds",
                "getProfilesByUsernames", "getCustomEmojisByName"}

\* (A variant that starts a fetch for every demand set, empty or not.)
PromisesOfAll(state, batch) ==
    <<Fetch("getProfilesByIds", UserIdsToLoad(state, batch)),
      Fetch("getStatusesByIds", StatusesToLoad(state, batch)),
      Fetch("getProfilesByUsernames",
            getNeededAtMentionedUsernames(state, batch)),
      Fetch("getCustomEmojisByName", getNeededCustomEmojis(state, batch))>>

\* promises: the fetches getProfilesAndStatusesForPosts starts for a
\* non-empty batch, in the order it pushes them.
Promises(state, batch) ==
    (IF UserIdsToLoad(state, batch) # {}
     THEN <<Fetch("getProfilesByIds", UserIdsToLoad(state, batch))>>
     ELSE <<>>)
    \o (IF StatusesToLoad(state, batch) # {}
        THEN <<Fetch("getStatusesByIds", StatusesToLoad(state, batch))>>
        ELSE <<>>)
    \o (IF getNeededAtMentionedUsernames(state, batch) # {}
        THEN <<Fetch("getProfilesByUsernames",
                     getNeededAtMentionedUsernames(state, batch))>>
        ELSE <<>>)
    \o (IF getNeededCustomEmojis(state, batch) # {}
        THEN <<Fetch("getCustomEmojisByName",
                     getNeededCustomEmojis(state, batch))>>
        ELSE <<>>)

\* What may be handed to the prefetcher: nothing (undefined), or the posts.
PostsArg(given, batch) == [given |-> given, posts |-> batch]
Given(batch) == PostsArg(TRUE, batch)

\* The fetches of getProfilesAndStatusesForPosts(postsArrayOrMap, ...).
PromisesFor(state, postsArrayOrMap) ==
    IF ~postsArrayOrMap.given THEN <<>>
    ELSE IF Len(postsArrayOrMap.posts) = 0 THEN <<>>
    ELSE Promises(state, postsArrayOrMap.posts)

\* getProfilesAndStatusesForPosts called by a caller that keeps the promise
\* it returns: the fetches are started one after the other and the promise
\* is resolved at once when there is none.
getProfilesAndStatusesForPosts(postsArrayOrMap) ==
    LET promises == PromisesFor(cached, postsArrayOrMap)
    IN  /\ lastOp.op = "init"
        /\ calls' = promises
        /\ lastOp' = OpFetch("getProfilesAndStatusesForPosts", NoId, <<>>,
                             IF promises = <<>> THEN "resolved" ELSE "pending",
                             promises, postsArrayOrMap, 0)
        /\ UNCHANGED <<storedFiles, reactions, msgCounts, cached, now, posts, pendingPostIds,
                       outbox, immediate, threadReqs, serverPosts, failedSends,
                       ops, myMembers>>

\* One of the fetches in flight resolves; Promise.all resolves with the last
\* one.
PrefetchSettle(i) ==
    /\ i \in 1..Len(calls)
    /\ calls[i].op \in PrefetchOps
    /\ calls' = Without(calls, i)
    /\ lastOp' = IF lastOp.op = "getProfilesAndStatusesForPosts"
                    /\ Len(calls) = 1
                 THEN [lastOp EXCEPT !.ret = "resolved"]
                 ELSE lastOp
    /\ UNCHANGED <<storedFiles, reactions, msgCounts, cached, now, posts, pendingPostIds,
                   outbox, immediate, threadReqs, serverPosts, failedSends,
                   ops, myMembers>>

\* A CombinedPostList over the posts of a batch.
ListOf(batch) ==
    [order |-> [i \in 1..Len(batch) |-> batch[i].id],
     posts |-> ById(batch),
     next_post_id |-> NoId,
     prev_post_id |-> NoId]

\* getPosts from the answer of Client4.getPosts on: the prefetcher is called
\* and its promise dropped, the receipts are dispatched and {data} is
\* returned.
getPostsAnswered(channelId, page, list) ==
    LET promises == PromisesFor(cached, Given(Values(list.posts)))
        actions == getPostsActions(channelId, page, list)
    IN  /\ lastOp.op = "init"
        /\ calls' = promises
        /\ Dispatch(actions)
        /\ lastOp' = OpFetch("getPosts", NoId, LogOf(actions), "data",
                             promises, Given(Values(list.posts)), page)
        /\ UNCHANGED <<cached, now, outbox, immediate, threadReqs, serverPosts,
                       failedSends, ops, myMembers>>

(* ------------------------------------------------ fetch family: operations *)

\* The posts a fetch operation hands to the prefetcher once its remote calls
\* have been answered: the post itself (getPost) or the mapping of the list.
FetchedPosts(call, parts) ==
    CASE call.op = "getPost" -> Given(<<parts.post[1]>>)
      [] call.op \in {"getPosts", "getPostsUnread", "getPostsSince"} ->
            Given(Values(parts.posts[1].posts))
      [] call.op = "getPostsBefore" -> Given(Values(parts.before[1].posts))
      [] call.op = "getPostsAfter" -> Given(Values(parts.after[1].posts))
      [] call.op = "getPostsAround" ->
            Given(Values(getPostsAroundPosts(call.postId, parts.after[1],
                                             parts.thread[1],
                                             parts.before[1]).posts))

\* The operations of the fetch family that run through Await.
FetchFamily ==
    {"getPost", "getPosts", "getPostsUnread", "getPostsSince",
     "getPostsBefore", "getPostsAfter", "getPostsAround"}

\* A fetch operation up to its await: the remote calls are issued and the
\* thunk is suspended.
Await(op, channelId, postId, page, names) ==
    /\ ops < MaxFetches
    /\ ops' = ops + 1
    /\ calls' = Append(calls,
                       [op |-> op, channelId |-> channelId, postId |-> postId,
                        page |-> page, parts |-> [x \in names |-> <<>>]])
    /\ lastOp' = Op(op, postId, NoId, FALSE, <<>>, <<>>, "await")
    /\ UNCHANGED <<storedFiles, reactions, msgCounts, cached, now, posts, pendingPostIds, outbox, immediate, threadReqs,
                   serverPosts, failedSends, myMembers>>

getPost(postId) == Await("getPost", NoId, postId, 0, {"post"})
getPosts(channelId, page) == Await("getPosts", channelId, NoId, page, {"posts"})
getPostsUnread(channelId) == Await("getPostsUnread", channelId, NoId, 0, {"posts"})
getPostsSince(channelId) == Await("getPostsSince", channelId, NoId, 0, {"posts"})
getPostsBefore(channelId, postId) ==
    Await("getPostsBefore", channelId, postId, 0, {"before"})
getPostsAfter(channelId, postId) ==
    Await("getPostsAfter", channelId, postId, 0, {"after"})
getPostsAround(channelId, postId) ==
    Await("getPostsAround", channelId, postId, 0, {"after", "thread", "before"})

\* The remote client answers one of the calls of the i-th operation in
\* flight; the operation resumes when all of them are answered: it calls the
\* prefetcher, drops the promise it returns, and dispatches its receipts.
FetchResolve(i, part) ==
    /\ i \in 1..Len(calls)
    /\ calls[i].op \in FetchFamily
    /\ part \in DOMAIN calls[i].parts
    /\ calls[i].parts[part] = <<>>
    /\ \E list \in Responses(calls[i], part) :
       LET call == calls[i]
           parts == [call.parts EXCEPT ![part] = <<list>>]
           actions == FetchSuccess(call, parts)
       IN  IF \E x \in DOMAIN parts : parts[x] = <<>>
           THEN /\ calls' = [calls EXCEPT ![i] = [call EXCEPT !.parts = parts]]
                /\ UNCHANGED <<storedFiles, reactions, msgCounts, cached, posts, pendingPostIds, lastOp>>
           ELSE /\ calls' = Without(calls, i)
                              \o PromisesFor(cached, FetchedPosts(call, parts))
                /\ Dispatch(actions)
                /\ lastOp' = OpFetch(call.op, call.postId, LogOf(actions),
                                      "data", actions, parts, call.page)
    /\ UNCHANGED <<cached, now, outbox, immediate, threadReqs, serverPosts, failedSends,
                   ops, myMembers>>

\* The remote client fails one of the calls of the i-th operation in flight.
FetchReject(i, error) ==
    /\ i \in 1..Len(calls)
    /\ calls[i].op \in FetchFamily
    /\ LET call == calls[i]
           actions == FetchRejected(call, error)
       IN  /\ calls' = Without(calls, i)
           /\ Dispatch(actions)
           /\ lastOp' = OpFetch(call.op, call.postId, LogOf(actions), "error",
                                 actions, call.parts, call.page)
    /\ UNCHANGED <<cached, now, outbox, immediate, threadReqs, serverPosts, failedSends,
                   ops, myMembers>>

\* getPostsAround once Promise.all has been answered with the three
\* responses: the rest of the operation.
getPostsAroundAnswered(channelId, postId, after, thread, before) ==
    LET list == getPostsAroundPosts(postId, after, thread, before)
        promises == PromisesFor(cached, Given(Values(list.posts)))
        actions == getPostsAroundActions(channelId, postId, after, thread, before)
        parts == [after |-> <<after>>, thread |-> <<thread>>,
                  before |-> <<before>>]
    IN  /\ lastOp.op = "init"
        /\ calls' = promises
        /\ Dispatch(actions)
        /\ lastOp' = OpFetch("getPostsAround", postId, LogOf(actions), "data",
                             actions, parts, 0)
        /\ UNCHANGED <<cached, now, outbox, immediate, threadReqs, serverPosts,
                       failedSends, ops, myMembers>>

\* getPostThread up to its await.
getPostThread(rootId, fetchThreads) ==
    /\ ops < MaxThreads
    /\ ops' = ops + 1
    /\ threadReqs' = Append(threadReqs, ThreadReq(rootId, fetchThreads))
    /\ Dispatch(GetPostThreadStart(rootId))
    /\ lastOp' = Op("getPostThread", rootId, NoId, FALSE,
                    LogOf(GetPostThreadStart(rootId)), <<>>, "await")
    /\ UNCHANGED <<cached, now, outbox, immediate, serverPosts, failedSends, calls,
                   myMembers>>

\* getPostThread after its await.
GetPostThreadActions(rootId, list, ok, error) ==
    IF ok
    THEN <<receivedPosts(list),
           receivedPostsInThread(list, rootId),
           Plain("GET_POST_THREAD_SUCCESS")>>
    ELSE <<Act("GET_POST_THREAD_FAILURE", NoId, error),
           Thunk("logError", NoId)>>

\* The remote client answers (ok) or fails the i-th getPostThread call in
\* flight: on an answer the prefetcher is called with the mapping of the
\* list and its promise dropped, then the batch is dispatched.
getPostThreadDone(i, ok) ==
    /\ i \in 1..Len(threadReqs)
    /\ threadReqs' = Without(threadReqs, i)
    /\ LET rootId == threadReqs[i].rootId
           list == ThreadList(rootId, threadReqs[i].fetchThreads)
           promises == IF ok
                       THEN PromisesFor(cached, Given(Values(list.posts)))
                       ELSE <<>>
           actions == GetPostThreadActions(rootId, list, ok, OtherError)
       IN  /\ calls' = calls \o promises
           /\ Dispatch(actions)
           /\ lastOp' = OpFetch("getPostThread", rootId, LogOf(actions),
                                 IF ok THEN "data" ELSE "error",
                                 IF ok THEN LogOf(actions)
                                 ELSE LogOf(<<forceLogoutIfNecessary(OtherError)>>
                                            \o actions),
                                 promises, 0)
    /\ UNCHANGED <<cached, myMembers, now, outbox, immediate, serverPosts, failedSends, ops>>

\* The posts of a batch whose thread getThreadsForPosts asks for: the replies
\* whose root the store did not hold when the operation started.
ThreadsToFetch(ps, batch) ==
    SelectSeq(batch, LAMBDA post : post.root_id # NoId
                                    /\ post.root_id \notin DOMAIN ps)

\* getThreadsForPosts: one getPostThread per reply whose root is missing,
\* each run up to its await; the promise of all of them is returned.
getThreadsForPosts(batch, fetchThreads) ==
    LET missing == ThreadsToFetch(posts, batch)
        actions == [i \in 1..Len(missing) |->
                        GetPostThreadStart(missing[i].root_id)[1]]
    IN  /\ ops + Len(missing) <= MaxThreads
        /\ ops' = ops + Len(missing)
        /\ threadReqs' = threadReqs
                            \o [i \in 1..Len(missing) |->
                                    ThreadReq(missing[i].root_id, fetchThreads)]
        /\ Dispatch(actions)
        /\ lastOp' = Op("getThreadsForPosts", NoId, NoId, FALSE,
                        LogOf(actions), <<>>,
                        IF batch = <<>> THEN "data" ELSE "Promise.all")
        /\ UNCHANGED <<cached, now, outbox, immediate, serverPosts, failedSends, calls,
                       myMembers>>

(* ------------------------------------------------------- specification *)

\* state.entities.users and state.entities.emojis with nothing cached.
NothingCached ==
    [profiles |-> {}, statuses |-> {}, customEmojis |-> {},
     nonExistentEmoji |-> {}, EnableCustomEmoji |-> "true"]

\* Everything but the membership records and the caches, which a store
\* may be preloaded with.
InitStore ==
    /\ now = 1
    /\ posts = <<>>
    /\ pendingPostIds = {}
    /\ outbox = <<>>
    /\ immediate = <<>>
    /\ threadReqs = <<>>
    /\ serverPosts = {}
    /\ failedSends = {}
    /\ ops = 0
    /\ calls = <<>>
    /\ reactions = {}
    /\ msgCounts = [c \in Channels |-> [total |-> 0, unread |-> 0]]
    /\ storedFiles = {}
    /\ lastOp = Op("init", NoId, NoId, FALSE, <<>>, <<>>, "")

\* A store whose membership records are loaded.
Init ==
    /\ InitStore
    /\ myMembers = [c \in Channels |-> "loaded"]
    /\ cached = NothingCached

\* createPost against the outbox, the server and the real-time events that
\* carry the server's copy of the posts it accepted.
NextCreate ==
    \/ Tick
    \/ \E post \in Drafts, files \in FileLists : createPost(post, files)
    \/ \E resp \in {"ok"} \cup CreateErrors : OfflineSend(resp)
    \/ CreatePostCommit
    \/ CreatePostRollback
    \/ \E post \in OwnEventPosts : handleNewPost(OpenMsg(post, <<>>))

SpecCreate == Init /\ [][NextCreate]_vars

\* deletePost against the outbox, over posts delivered by real-time events.
NextDelete ==
    \/ \E post \in NewForeignPosts : handleNewPost(OpenMsg(post, <<>>))
    \/ \E i \in 1..Len(threadReqs), ok \in BOOLEAN : getPostThreadDone(i, ok)
    \/ \E i \in 1..Len(calls) : PrefetchSettle(i)
    \/ \E post \in Deletable : deletePost(post)
    \/ \E resp \in {"ok", OtherError} : OfflineSend(resp)
    \/ DeletePostCommit
    \/ DeletePostRollback

SpecDelete == Init /\ [][NextDelete]_vars

\* The synchronization engine: every operation that leaves an optimistic
\* record, against the outbox and the server.
Next ==
    \/ Tick
    \/ \E post \in Drafts : createPost(post, <<>>)
    \/ \E post \in Drafts, resp \in {"ok", OtherError} :
            createPostImmediately(post, <<>>, resp)
    \/ \E i \in 1..Len(immediate) : createPostImmediatelyDone(i)
    \/ \E post \in StoredPosts : deletePost(post)
    \/ \E resp \in {"ok"} \cup CreateErrors : OfflineSend(resp)
    \/ CreatePostCommit
    \/ CreatePostRollback
    \/ DeletePostCommit
    \/ DeletePostRollback

Spec == Init /\ [][Next]_vars

\* createPostImmediately alone against the server.
NextImmediate ==
    \/ Tick
    \/ \E post \in Drafts, files \in FileLists, resp \in {"ok", OtherError} :
            createPostImmediately(post, files, resp)
    \/ \E i \in 1..Len(immediate) : createPostImmediatelyDone(i)

SpecImmediate == Init /\ [][NextImmediate]_vars

\* createPost and createPostImmediately side by side, the queued sends and
\* the remote creates left outstanding or completed.
NextSendBoth ==
    \/ Tick
    \/ \E post \in Drafts : createPost(post, <<>>)
    \/ \E post \in Drafts, resp \in {"ok", OtherError} :
            createPostImmediately(post, <<>>, resp)
    \/ \E i \in 1..Len(immediate) : createPostImmediatelyDone(i)

SpecSendBoth == Init /\ [][NextSendBoth]_vars

\* The batches getThreadsForPosts is called with: none, a reply, the same
\* reply twice, and a root with its reply.
ThreadBatches ==
    {<<>>, <<ForeignPost(2)>>, <<ForeignPost(2), ForeignPost(2)>>,
     <<ForeignPost(1), ForeignPost(2)>>}

\* No operation of the fetch family is suspended; fetches of the prefetcher
\* may be in flight.
NoFetchAwaited == \A i \in 1..Len(calls) : calls[i].op \notin FetchFamily

\* The fetch family against the remote client: one operation at a time,
\* while the fetches the prefetcher started settle in any order.
NextFetch ==
    \/ /\ NoFetchAwaited
       /\ \/ \E postId \in HistoryIds : getPost(postId)
          \/ \E page \in 0..MaxPage : getPosts(CurrentChannelId, page)
          \/ getPostsUnread(CurrentChannelId)
          \/ getPostsSince(CurrentChannelId)
          \/ \E postId \in HistoryIds : getPostsBefore(CurrentChannelId, postId)
          \/ \E postId \in HistoryIds : getPostsAfter(CurrentChannelId, postId)
          \/ \E postId \in HistoryIds : getPostsAround(CurrentChannelId, postId)
    \/ \E i \in 1..Len(calls),
          part \in {"post", "posts", "after", "thread", "before"} :
            FetchResolve(i, part)
    \/ \E i \in 1..Len(calls) : FetchReject(i, OtherError)
    \/ \E i \in 1..Len(calls) : PrefetchSettle(i)

SpecFetch == Init /\ [][NextFetch]_vars

\* getPostThread, alone and by getThreadsForPosts, against the remote client:
\* any number of calls in flight, answered in any order.
NextThread ==
    \/ \E rootId \in {ForeignId(1), ForeignId(2)}, fetchThreads \in BOOLEAN :
            getPostThread(rootId, fetchThreads)
    \/ \E batch \in ThreadBatches, fetchThreads \in BOOLEAN :
            getThreadsForPosts(batch, fetchThreads)
    \/ \E i \in 1..Len(threadReqs), ok \in BOOLEAN : getPostThreadDone(i, ok)
    \/ \E i \in 1..Len(calls) : PrefetchSettle(i)

SpecThread == Init /\ [][NextThread]_vars

\* Real-time events against a store preloaded with any membership records.
InitEvents ==
    /\ InitStore
    /\ cached = NothingCached
    /\ myMembers \in [Channels -> MemberStates]

NextEvents ==
    \/ \E msg \in EventMsgs : handleNewPost(msg)
    \/ \E i \in 1..Len(threadReqs), ok \in BOOLEAN : getPostThreadDone(i, ok)
    \/ \E i \in 1..Len(calls) : PrefetchSettle(i)

SpecEvents == InitEvents /\ [][NextEvents]_vars

\* pinPost and unpinPost of posts of other users, one call in flight at a
\* time, which real-time events bring into the store at any moment.
NextPin ==
    \/ Tick
    \/ \E post \in NewForeignPosts : handleNewPost(OpenMsg(post, <<>>))
    \/ calls = <<>> /\ \E postId \in ForeignIds : pinPost(postId)
    \/ calls = <<>> /\ \E postId \in ForeignIds : unpinPost(postId)
    \/ \E i \in 1..Len(calls) : PinResolve(i)
    \/ \E i \in 1..Len(calls) : PinReject(i, OtherError)

SpecPin == Init /\ [][NextPin]_vars

\* pinPost and unpinPost while the store changes under the call in flight:
\* real-time events load posts, deletePost marks them and removePost drops
\* them.
NextPinRace ==
    \/ \E post \in NewForeignPosts : handleNewPost(OpenMsg(post, <<>>))
    \/ NoCallOf({"pinPost", "unpinPost"})
         /\ \E postId \in ForeignIds : pinPost(postId)
    \/ NoCallOf({"pinPost", "unpinPost"})
         /\ \E postId \in ForeignIds : unpinPost(postId)
    \/ \E i \in 1..Len(calls) : PinResolve(i)
    \/ NoCallOf({"editPost"}) /\ \E post \in PostPatches : editPost(post)
    \/ \E i \in {k \in 1..Len(calls) : calls[k].op = "editPost"} :
         \E data \in PatchedPosts(calls[i].params, now) : EditResolve(i, data)
    \/ \E i \in 1..Len(calls) : EditReject(i, OtherError)
    \/ \E post \in StoredPosts : deletePost(post)
    \/ \E post \in StoredPosts : dispatchRemovePost(post)

SpecPinRace == Init /\ [][NextPinRace]_vars

\* The reactions the server may hold for a post.
ReactionLists(postId) ==
    LET rs == {Reaction(u, postId, e) :
                  u \in {CurrentUserId, OtherUserId}, e \in EmojiNames}
    IN  ({<<>>} \cup {<<r>> : r \in rs}
            \cup {<<r1, r2>> : r1 \in rs, r2 \in rs}) \ {<<r, r>> : r \in rs}

ReactionPostIds == {ForeignId(1), ForeignId(2)}

\* Reactions of the current user to posts, and reads of the reactions of a
\* post, one call in flight at a time.
NextReaction ==
    \/ calls = <<>> /\ \E postId \in ReactionPostIds, e \in EmojiNames :
                            addReaction(postId, e)
    \/ calls = <<>> /\ \E postId \in ReactionPostIds, e \in EmojiNames :
                            removeReaction(postId, e)
    \/ calls = <<>> /\ \E postId \in ReactionPostIds :
                            getReactionsForPost(postId)
    \/ \E i \in 1..Len(calls) : ReactionResolve(i)
    \/ \E i \in 1..Len(calls), postId \in ReactionPostIds :
            \E list \in ReactionLists(postId) :
                getReactionsForPostResolve(i, list)
    \/ \E i \in 1..Len(calls) : ReactionReject(i, OtherError)

SpecReaction == Init /\ [][NextReaction]_vars

\* removePost of stored and of combined posts, over posts delivered by
\* real-time events.
NextRemove ==
    \/ \E post \in NewForeignPosts : handleNewPost(OpenMsg(post, <<>>))
    \/ \E i \in 1..Len(threadReqs), ok \in BOOLEAN : getPostThreadDone(i, ok)
    \/ \E i \in 1..Len(calls) : PrefetchSettle(i)
    \/ \E post \in Deletable : dispatchRemovePost(post)

SpecRemove == Init /\ [][NextRemove]_vars

\* The profiles a store may have cached when mentions are scanned: one whose
\* user name ends with punctuation among them.
MentionProfiles ==
    {[id |-> OtherUserId, username |-> BDotO],
     [id |-> "u3", username |-> BDotO \o <<".">>]}

InitMentions ==
    /\ InitStore
    /\ myMembers = [c \in Channels |-> "loaded"]
    /\ cached \in {[NothingCached EXCEPT !.profiles = profiles] :
                      profiles \in SUBSET MentionProfiles}

\* The mention scan of a batch, over any store.
NextMentions ==
    \E tokens \in TokenSeqs(MaxTokens), separator \in Separators,
       two \in BOOLEAN :
        scanMentions(tokens, separator, two)

SpecMentions == InitMentions /\ [][NextMentions]_vars

\* The posts of the batches handed to the prefetcher: written by the current
\* user or by another one; a plain message, a mention, or a custom emoji.
BatchMessages ==
    {<<"h", "i">>, <<"@">> \o Bo, <<":">> \o Corgi \o <<":">>}
BatchPost(k, userId, message) == WrittenPost(k, userId, message, FALSE, <<>>)

RECURSIVE Batches(_)
Batches(n) ==
    IF n = 0 THEN {<<>>}
    ELSE LET shorter == Batches(n - 1)
         IN  shorter \cup
             {Append(batch, BatchPost(Len(batch) + 1, userId, message)) :
                 batch \in {b \in shorter : Len(b) = n - 1},
                 userId \in {CurrentUserId, OtherUserId},
                 message \in BatchMessages}

\* What a store may have cached when the prefetcher is called.
InitPrefetch ==
    /\ InitStore
    /\ myMembers = [c \in Channels |-> "loaded"]
    /\ cached \in {[NothingCached EXCEPT !.profiles = profiles,
                                         !.statuses = statuses,
                                         !.customEmojis = customEmojis] :
                      profiles \in SUBSET {[id |-> OtherUserId, username |-> Bo]},
                      statuses \in SUBSET {CurrentUserId, OtherUserId},
                      customEmojis \in SUBSET {Corgi}}

\* The prefetcher called with a batch by a caller that keeps its promise, and
\* by getPosts.
NextPrefetch ==
    \/ \E postsArrayOrMap \in {Given(batch) : batch \in Batches(MaxBatch)} :
            getProfilesAndStatusesForPosts(postsArrayOrMap)
    \/ \E postsArrayOrMap \in {PostsArg(given, <<>>) : given \in BOOLEAN} :
            /\ ~postsArrayOrMap.given
            /\ getProfilesAndStatusesForPosts(postsArrayOrMap)
    \/ \E list \in {ListOf(batch) : batch \in Batches(MaxBatch) \ {<<>>}},
          page \in 0..MaxPage :
            getPostsAnswered(CurrentChannelId, page, list)
    \/ \E i \in 1..4 : PrefetchSettle(i)

SpecPrefetch == InitPrefetch /\ [][NextPrefetch]_vars

\* The posts of the batches whose emoji are scanned: a plain message, a
\* custom emoji or a built-in one; with or without metadata; with or without
\* an attachment that names a custom emoji.
Wave == <<"w", "a", "v", "e">>
EmojiMessages ==
    {<<"h", "i">>, <<":">> \o Corgi \o <<":">>, <<":">> \o Smile \o <<":">>}
EmojiAttachments ==
    {<<>>, <<Attachment(<<>>, <<>>, <<":">> \o Wave \o <<":">>)>>}

RECURSIVE EmojiBatches(_)
EmojiBatches(n) ==
    IF n = 0 THEN {<<>>}
    ELSE LET shorter == EmojiBatches(n - 1)
         IN  shorter \cup
             {Append(batch, WrittenPost(Len(batch) + 1, OtherUserId, message,
                                        metadata, attachments)) :
                 batch \in {b \in shorter : Len(b) = n - 1},
                 message \in EmojiMessages,
                 metadata \in BOOLEAN,
                 attachments \in EmojiAttachments}

\* What a store may have cached, and the configuration, when emoji are
\* scanned.
InitEmoji ==
    /\ InitStore
    /\ myMembers = [c \in Channels |-> "loaded"]
    /\ cached \in {[NothingCached EXCEPT !.customEmojis = customEmojis,
                                         !.nonExistentEmoji = nonExistentEmoji,
                                         !.EnableCustomEmoji = enabled] :
                      customEmojis \in SUBSET {Corgi},
                      nonExistentEmoji \in SUBSET {Wave},
                      enabled \in {"true", "false"}}

\* The emoji scan of a batch, over any store.
NextEmoji ==
    \E batch \in EmojiBatches(MaxBatch) \ {<<>>} : scanEmojis(batch)

SpecEmoji == InitEmoji /\ [][NextEmoji]_vars

\* A response whose mapping holds the post k besides the posts it lists (a
\* page fetched with its threads holds the posts of the threads it touches).
WithPost(list, k) ==
    [list EXCEPT !.posts = Spread(@, ById(<<HistoryPost(k)>>))]

\* The three responses getPostsAround may be answered with for the pivot
\* HistoryId(p): each of them lists only posts its mapping holds; the thread
\* response is the thread of the pivot, which holds it, and a page may hold
\* the pivot too.
AroundResponses(p) ==
    LET call == [postId |-> HistoryId(p)]
        pages(part) ==
            Responses(call, part)
                \cup {WithPost(list, p) : list \in Responses(call, part)}
    IN  [after : pages("after"),
         thread : Responses(call, "thread"),
         before : pages("before")]

\* getPostsAround joined with any three responses.
NextAround ==
    \/ \E p \in 1..MaxHistory :
          \E r \in AroundResponses(p) :
            getPostsAroundAnswered(CurrentChannelId, HistoryId(p), r.after,
                                   r.thread, r.before)
    \/ \E i \in 1..Len(calls) : PrefetchSettle(i)

SpecAround == Init /\ [][NextAround]_vars

(* ------------------------------------------------------------- claims *)

CreateEntries(pendingPostId) ==
    {i \in 1..Len(outbox) :
        outbox[i].kind = "create" /\ outbox[i].id = pendingPostId}

C1_AtMostOneInFlight ==
    \A p \in PendingIds : Cardinality(CreateEntries(p)) <= 1

C1_DuplicateIsNoOp ==
    \A post \in Drafts, files \in FileLists :
        (/\ createPost(post, files)
         /\ CreatePostIsDuplicate(pendingPostIds, CreatePostPendingId(post, now)))
        => /\ posts' = posts
           /\ pendingPostIds' = pendingPostIds
           /\ outbox' = outbox
           /\ lastOp'.dispatched = <<>>
           /\ lastOp'.queued = <<>>
           /\ lastOp'.ret = "data"

\* C1: a createPost for a pending id whose send is outstanding returns
\* {data: true}, dispatches nothing and queues no remote create; so at most
\* one remote create per pending id is in flight.
C1_Dedup == [][C1_DuplicateIsNoOp]_vars /\ []C1_AtMostOneInFlight

C1_Witness ==
    /\ lastOp.op = "createPost"
    /\ lastOp.dedup
    /\ Cardinality(CreateEntries(lastOp.id)) = 1

\* C2: the reservation of a pending id is held exactly while its send is
\* outstanding: it is taken when the send is accepted, released by the
\* commit or rollback of that send and by nothing else, hence released once
\* and never left behind.
C2_ReservedWhileOutstanding ==
    \A p \in PendingIds :
        isPostIdSending(pendingPostIds, p) <=> Cardinality(CreateEntries(p)) = 1

C2_Witness ==
    /\ lastOp.op \in {"createPostCommit", "createPostRollback"}
    /\ ~isPostIdSending(pendingPostIds, lastOp.id)
    /\ ops > 0

\* C3: after the commit of a send the store holds the server's record, under
\* the server's id and with the server's timestamps, and nothing at the
\* pending id.
C3_RoundTrip ==
    lastOp.op = "createPostCommit" =>
        /\ lastOp.id \notin DOMAIN posts
        /\ lastOp.sid \in DOMAIN posts
        /\ \E sp \in serverPosts :
              /\ sp.pid = lastOp.id
              /\ sp.post.id = lastOp.sid
              /\ posts[lastOp.sid].id = sp.post.id
              /\ posts[lastOp.sid].create_at = sp.post.create_at
              /\ posts[lastOp.sid].update_at = sp.post.update_at

C3_Witness ==
    /\ lastOp.op = "createPostCommit"
    /\ lastOp.sid \in DOMAIN posts
    /\ posts[lastOp.sid].create_at > MaxClock

C4_Classified ==
    CreatePostRollback =>
        LET p == outbox[1].id
        IN  IF outbox[1].resp \in {RootIdAppError, TownSquareReadOnly, DismissPost}
            THEN p \notin DOMAIN posts'
            ELSE /\ p \in DOMAIN posts'
                 /\ posts'[p].id = p
                 /\ posts'[p].failed
                 /\ posts'[p].update_at = now

\* C4: a create rejected for root-post-deleted, read-only-channel or
\* plugin-dismissed leaves no record at the pending id; rejected for any
\* other reason it leaves the record there, failed, updated at the time of
\* the rollback.
C4_FailureClassification == [][C4_Classified]_vars

C4_Witness ==
    /\ lastOp.op = "createPostRollback"
    /\ lastOp.ret = DismissPost
    /\ lastOp.id \notin DOMAIN posts
    /\ \E p \in DOMAIN posts : posts[p].failed /\ posts[p].update_at > posts[p].create_at

\* A record at the pending id of an accepted send next to the server's record
\* of that send appears only once the send was committed, by a step of
\* another send under the same pending id (a post made in the same
\* millisecond): createPost accepts it, or its rollback marks it failed. The
\* two records are then those of two posts.
C5_Step ==
    \A sp \in serverPosts' :
        (sp.pid \in DOMAIN posts' /\ sp.post.id \in DOMAIN posts')
        => \/ sp.pid \in DOMAIN posts /\ sp.post.id \in DOMAIN posts
           \/ /\ lastOp'.op \in {"createPost", "createPostRollback"}
              /\ ~lastOp'.dedup
              /\ lastOp'.id = sp.pid
              /\ sp \in serverPosts
              /\ \A i \in CreateEntries(sp.pid) : outbox[i].resp # "ok"

\* C5: the store never holds both the optimistic record of a send and the
\* server's record of it, whichever of the commit and the real-time event
\* comes first.
C5_OneRecordPerPost == [][C5_Step]_vars

C5_Witness ==
    /\ lastOp.op = "handleNewPost"
    /\ \E sp \in serverPosts :
          /\ sp.post.id = lastOp.id
          /\ sp.post.id \in DOMAIN posts
          /\ Cardinality(CreateEntries(sp.pid)) = 1

C6_ResolvedElsewhere ==
    /\ CreatePostRollback
       => (outbox[1].id \notin DOMAIN posts' \/ posts'[outbox[1].id].failed)
    /\ CreatePostCommit
       => (outbox[1].id \notin DOMAIN posts'
           /\ outbox[1].payload.id \in DOMAIN posts')
    /\ \A i \in 1..Len(immediate) :
        (createPostImmediatelyDone(i) /\ immediate[i].resp = "ok")
        => (immediate[i].id \notin DOMAIN posts'
            /\ immediate[i].payload.id \in DOMAIN posts')
    /\ DeletePostRollback
       => (outbox[1].id \in DOMAIN posts'
           /\ posts'[outbox[1].id] = outbox[1].post)
    /\ DeletePostCommit => posts' = posts

C6_ImmediateFailureResolved ==
    \A i \in 1..Len(immediate) :
        (createPostImmediatelyDone(i) /\ immediate[i].resp # "ok")
        => (immediate[i].id \notin DOMAIN posts'
            \/ posts'[immediate[i].id].failed)

\* C6: the completion of the remote call of an optimistic record resolves it:
\* a failed create leaves the record removed or marked failed, a failed
\* delete puts the record back, a success leaves the confirmed record and
\* nothing at the pending id.
C6_OptimisticResolved ==
    [][C6_ResolvedElsewhere /\ C6_ImmediateFailureResolved]_vars

LastEntry == outbox'[Len(outbox')]

C7_Step ==
    /\ \A post \in Drafts, files \in FileLists :
        (/\ createPost(post, files)
         /\ ~CreatePostIsDuplicate(pendingPostIds, CreatePostPendingId(post, now)))
        => LET p == CreatePostPendingId(post, now)
           IN  /\ p \in DOMAIN posts'
               /\ posts'[p].pending_post_id = p
               /\ posts'[p].create_at = now
               /\ isPostIdSending(pendingPostIds', p)
               /\ Len(outbox') = Len(outbox) + 1
               /\ LastEntry.kind = "create" /\ LastEntry.id = p
               /\ ~LastEntry.sent
    /\ \A resp \in {"ok"} \cup CreateErrors :
        (OfflineSend(resp) /\ outbox[1].kind = "create")
        => LET e == outbox[1]
           IN  /\ isPostIdSending(pendingPostIds, e.id)
               /\ isPostIdSending(pendingPostIds', e.id)
               /\ posts' = posts
    /\ (CreatePostCommit \/ CreatePostRollback)
        => LET e == outbox[1]
           IN  /\ e.sent
               /\ isPostIdSending(pendingPostIds, e.id)
               /\ (e.id \notin DOMAIN posts' \/ posts'[e.id].failed)

\* C7: an accepted createPost applies its optimistic update in the step that
\* queues the remote create, which is not yet issued; the create is issued
\* while the optimistic update is reserved; the commit or the rollback runs
\* only for a create that was issued and whose optimistic update is still
\* reserved, and its result is what the store is left with.
C7_OptimisticThenResult == [][C7_Step]_vars

C7_Witness ==
    /\ lastOp.op = "createPostCommit"
    /\ \E i \in 1..Len(outbox) :
          /\ outbox[i].kind = "create" /\ ~outbox[i].sent
          /\ outbox[i].id \in DOMAIN posts

C8_Step ==
    \A post \in Drafts, files \in FileLists :
        (/\ createPost(post, files)
         /\ post.pending_post_id \in failedSends
         /\ ~isPostIdSending(pendingPostIds, post.pending_post_id))
        => LET p == post.pending_post_id
           IN  /\ lastOp'.id = p
               /\ ~lastOp'.dedup
               /\ LET n == Len(lastOp'.dispatched)
                  IN  /\ n \in {1, 2}
                      /\ lastOp'.dispatched[n] =
                            [type |-> "RECEIVED_NEW_POST", id |-> p]
                      /\ n = 2 => lastOp'.dispatched[1] =
                            [type |-> "RECEIVED_FILES_FOR_POST", id |-> p]
               /\ p \in DOMAIN posts'
               /\ posts'[p].create_at = now
               /\ isPostIdSending(pendingPostIds', p)
               /\ Len(outbox') = Len(outbox) + 1
               /\ LastEntry.kind = "create" /\ LastEntry.id = p
               /\ ~LastEntry.sent

\* C8: a createPost that supplies the pending id of a send that failed and was
\* released reuses that id, is not deduplicated, dispatches a new optimistic
\* update and queues a new remote create.
C8_RetryAfterFailure == [][C8_Step]_vars

C8_Witness ==
    /\ lastOp.op = "createPost"
    /\ ~lastOp.dedup
    /\ lastOp.id \in DOMAIN posts
    /\ posts[lastOp.id].create_at > lastOp.id[2]
    /\ Cardinality(CreateEntries(lastOp.id)) = 1

StoredMembers(ps, ids) == SelectSeq(ids, LAMBDA id : id \in DOMAIN ps)

C9_Step ==
    lastOp'.op = "deletePost" => \A post \in Deletable :
        (/\ lastOp'.id = post.id
         /\ IsCombined(post)
         /\ lastOp'.members = post.system_post_ids
         /\ deletePost(post))
        => LET M == StoredMembers(posts, post.system_post_ids)
           IN  /\ lastOp'.queued = M
               /\ lastOp'.dispatched =
                      [i \in 1..Len(M) |-> [type |-> "POST_DELETED", id |-> M[i]]]
               /\ outbox' = outbox \o
                      [i \in 1..Len(M) |-> OfflineEntry("delete", M[i], posts[M[i]], <<>>)]
               /\ \A i \in 1..Len(outbox') :
                      outbox'[i].kind = "delete" => outbox'[i].id # post.id

\* C9 (amended): deleting a combined post issues exactly one delete, with its
\* post-deleted dispatch, for each member the store holds, in order, none
\* for a member the store does not hold, and none for the combined record.
C9_FanOutOverStoredMembers == [][C9_Step]_vars

C9_Witness ==
    /\ lastOp.op = "deletePost"
    /\ lastOp.id = CombinedId
    /\ Len(lastOp.members) = 3
    /\ Len(lastOp.queued) = 2

C9_OriginalStep ==
    lastOp'.op = "deletePost" => \A post \in Deletable :
        (/\ lastOp'.id = post.id
         /\ IsCombined(post)
         /\ lastOp'.members = post.system_post_ids
         /\ deletePost(post))
        => /\ lastOp'.queued = post.system_post_ids
           /\ \A i \in 1..Len(lastOp'.dispatched) :
                  lastOp'.dispatched[i].id # post.id

\* C9 as claimed: one delete for each member of M, none for the combined
\* record.
C9_FanOutOverAllMembers == [][C9_OriginalStep]_vars

C10_Step ==
    /\ lastOp'.op = "deletePost" => \A post \in Deletable :
        (lastOp'.id = post.id /\ ~IsCombined(post) /\ deletePost(post))
        => /\ post = posts[post.id]
           /\ posts'[post.id] = [post EXCEPT !.state = "DELETED"]
           /\ lastOp'.dispatched = <<[type |-> "POST_DELETED", id |-> post.id]>>
           /\ outbox' = Append(outbox, OfflineEntry("delete", post.id, post, <<>>))
    /\ (lastOp'.op = "deletePostRollback" /\ DeletePostRollback)
        => /\ outbox[1].sent
           /\ outbox[1].id \in DOMAIN posts'
           /\ posts'[outbox[1].id] = outbox[1].post
    /\ (lastOp'.op = "deletePostCommit" /\ DeletePostCommit)
        => /\ outbox[1].sent
           /\ posts' = posts

\* C10: deletePost of a single post marks it deleted in the store and queues
\* the remote delete, not yet issued, with the record as it was; a failed
\* delete puts that record back; a successful one leaves the store as it is.
C10_DeleteRollsBack == [][C10_Step]_vars

C10_Witness ==
    /\ lastOp.op = "deletePostRollback"
    /\ lastOp.id \in DOMAIN posts
    /\ posts[lastOp.id].state = ""

C11_Step ==
    \A i \in 1..Len(immediate) :
        (createPostImmediatelyDone(i) /\ immediate[i].resp # "ok")
        => LET p == immediate[i].id
           IN  /\ p \notin DOMAIN posts'
               /\ \A x \in DOMAIN posts' :
                      posts'[x].pending_post_id = p => ~posts'[x].failed
               /\ ~isPostIdSending(pendingPostIds', p)
               /\ lastOp'.ret = "error"

\* C11: when the remote create of createPostImmediately fails, the optimistic
\* record at the pending id is removed, no failed record is left, and the
\* operation returns {error}.
C11_ImmediateFailureRemoves == [][C11_Step]_vars

C12_Step ==
    /\ \A post \in Drafts, files \in FileLists, resp \in {"ok", OtherError} :
        createPostImmediately(post, files, resp)
        => /\ lastOp'.ret = "await"
           /\ Len(immediate') = Len(immediate) + 1
    /\ \A i \in 1..Len(immediate) :
        (createPostImmediatelyDone(i) /\ immediate[i].resp = "ok")
        => LET c == immediate[i]
               id == c.payload.id
           IN  /\ lastOp'.ret = "data"
               /\ lastOp'.sid = id
               /\ lastOp'.dispatched[1] = [type |-> "RECEIVED_POST", id |-> id]
               /\ id \in DOMAIN posts'
               /\ posts'[id] = SpreadFields(c.post, [id |-> id])
               /\ c.id \notin DOMAIN posts'
    /\ lastOp'.op = "createPostImmediatelyDone" /\ lastOp' # lastOp
       => \E i \in 1..Len(immediate) : immediate' = Without(immediate, i)

\* C12: createPostImmediately returns nothing until its remote create has
\* completed; on success the record it dispatches and the post it returns are
\* the local post with the server-assigned id, stored in place of the
\* optimistic record.
C12_ImmediatePromotesInPlace == [][C12_Step]_vars

C12_Witness ==
    /\ lastOp.op = "createPostImmediatelyDone"
    /\ lastOp.ret = "data"
    /\ lastOp.sid \in DOMAIN posts
    /\ posts[lastOp.sid].id = lastOp.sid
    /\ posts[lastOp.sid].create_at <= MaxClock
    /\ lastOp.id \notin DOMAIN posts

\* C13: the batch getPostsAround dispatches lists the after page, then the
\* pivot, then the before page (newest first: after ids [5,4], pivot 3 and
\* before ids [2,1] give [5,4,3,2,1]); its next_post_id is the after page's
\* and its prev_post_id the before page's.
C13_AroundOrder ==
    (lastOp.op = "getPostsAround" /\ lastOp.ret = "data")
    => LET after == lastOp.parts.after[1]
           before == lastOp.parts.before[1]
           list == lastOp.effects[2].data
       IN  /\ list.order = after.order \o <<lastOp.id>> \o before.order
           /\ \A i \in 1..(Len(list.order) - 1) :
                  list.order[i][2] > list.order[i + 1][2]
           /\ list.next_post_id = after.next_post_id
           /\ list.prev_post_id = before.prev_post_id
           /\ lastOp.effects[1].list = list
           /\ Keys(list.posts) = {list.order[i] : i \in 1..Len(list.order)}
           /\ (/\ after.order = <<HistoryId(5), HistoryId(4)>>
               /\ before.order = <<HistoryId(2), HistoryId(1)>>
               /\ lastOp.id = HistoryId(3))
              => list.order = <<HistoryId(5), HistoryId(4), HistoryId(3),
                                HistoryId(2), HistoryId(1)>>

C13_Witness ==
    /\ lastOp.op = "getPostsAround"
    /\ lastOp.ret = "data"
    /\ lastOp.id = HistoryId(3)
    /\ lastOp.parts.after[1].order = <<HistoryId(5), HistoryId(4)>>
    /\ lastOp.parts.before[1].order = <<HistoryId(2), HistoryId(1)>>
    /\ lastOp.effects[2].data.next_post_id = NoId
    /\ lastOp.effects[2].data.prev_post_id = NoId
    /\ \A k \in 1..5 : HistoryId(k) \in DOMAIN posts

FetchOps ==
    {"getPostThread", "getPosts", "getPostsUnread", "getPostsSince",
     "getPostsBefore", "getPostsAfter", "getPostsAround"}
PostsReceivedTypes ==
    {"RECEIVED_POSTS", "RECEIVED_POSTS_AFTER", "RECEIVED_POSTS_BEFORE",
     "RECEIVED_POSTS_SINCE", "RECEIVED_POSTS_IN_CHANNEL",
     "RECEIVED_POSTS_IN_THREAD"}
NoReceipt(op) ==
    \A i \in 1..Len(op.effects) : op.effects[i].type \notin PostsReceivedTypes

\* getPostsAround is suspended on its remote calls.
AroundAwaited(inFlight) ==
    \E i \in 1..Len(inFlight) : inFlight[i].op = "getPostsAround"

C14_Step ==
    /\ (AroundAwaited(calls) /\ AroundAwaited(calls'))
       => (posts' = posts /\ lastOp' = lastOp)
    /\ (/\ lastOp'.op = "getPostsAround"
        /\ lastOp'.ret = "error"
        /\ AroundAwaited(calls)
        /\ ~AroundAwaited(calls'))
       => /\ posts' = posts
          /\ NoReceipt(lastOp')

\* C14: getPostsAround dispatches nothing before its three remote calls are
\* all answered; when one of them fails it returns {error}, dispatches no
\* posts-received action and leaves the store's posts as they were, whatever
\* the other calls had answered.
C14_AroundNoPartialMerge == [][C14_Step]_vars

C14_Witness ==
    /\ lastOp.op = "getPostsAround"
    /\ lastOp.ret = "error"
    /\ lastOp.parts.after # <<>>
    /\ lastOp.parts.thread # <<>>
    /\ lastOp.parts.before = <<>>
    /\ lastOp.parts.after[1].order # <<>>
    /\ lastOp.id \notin DOMAIN posts
    /\ \A id \in Keys(lastOp.parts.after[1].posts) : id \notin DOMAIN posts

C15_FailureOrder(op) ==
    /\ Len(op.effects) >= 2
    /\ op.effects[1].type = "CALL:forceLogoutIfNecessary"
    /\ \E i \in 2..Len(op.effects) : op.effects[i].type = "LOG_ERROR"
    /\ NoReceipt(op)

C15_Step ==
    (lastOp'.ret = "error" /\ lastOp'.op \in FetchOps /\ lastOp' # lastOp)
    => (C15_FailureOrder(lastOp') /\ posts' = posts)

\* C15: when the remote call of a fetch operation (thread, posts, since,
\* before, after, unread, around) fails, the forced-logout check runs first,
\* then the error is logged, then {error} is returned; no posts-received
\* receipt is dispatched and the store's posts are unchanged.
C15_FetchFailureLogged == [][C15_Step]_vars

\* The receipt that carries the positional flags.
FlagReceipt(op) ==
    op.effects[CHOOSE i \in 1..Len(op.effects) :
                   op.effects[i].type \in {"RECEIVED_POSTS_IN_CHANNEL",
                                            "RECEIVED_POSTS_AFTER",
                                            "RECEIVED_POSTS_BEFORE"}]
RecentByMarker(op) ==
    FlagReceipt(op).recent <=> FlagReceipt(op).data.next_post_id = NoId
OldestByMarker(op) ==
    FlagReceipt(op).oldest <=> FlagReceipt(op).data.prev_post_id = NoId

\* C16 as amended: getPosts sets the most-recent flag exactly when page 0 was
\* asked for; getPostsUnread, getPostsAfter and getPostsAround set it exactly
\* when next_post_id is empty; getPosts, getPostsUnread, getPostsBefore and
\* getPostsAround set the oldest flag exactly when prev_post_id is empty.
C16_FlagsFromMarkersOrPage ==
    lastOp.ret = "data"
    => /\ lastOp.op = "getPosts"
          => /\ FlagReceipt(lastOp).recent <=> lastOp.page = 0
             /\ OldestByMarker(lastOp)
       /\ lastOp.op \in {"getPostsUnread", "getPostsAround"}
          => RecentByMarker(lastOp) /\ OldestByMarker(lastOp)
       /\ lastOp.op = "getPostsAfter" => RecentByMarker(lastOp)
       /\ lastOp.op = "getPostsBefore" => OldestByMarker(lastOp)

C16_Witness ==
    /\ lastOp.op = "getPosts"
    /\ lastOp.ret = "data"
    /\ lastOp.page = 1
    /\ FlagReceipt(lastOp).data.order = <<>>
    /\ FlagReceipt(lastOp).data.next_post_id = NoId
    /\ ~FlagReceipt(lastOp).recent
    /\ FlagReceipt(lastOp).oldest

\* C16: every operation that dispatches positional flags sets the most-recent
\* flag exactly when next_post_id is empty and the oldest flag exactly when
\* prev_post_id is empty.
C16_FlagsFromMarkers ==
    lastOp.ret = "data"
    => /\ lastOp.op \in {"getPosts", "getPostsUnread", "getPostsAround"}
          => RecentByMarker(lastOp) /\ OldestByMarker(lastOp)
       /\ lastOp.op = "getPostsAfter" => RecentByMarker(lastOp)
       /\ lastOp.op = "getPostsBefore" => OldestByMarker(lastOp)

\* The position of the first action of a type in what an operation
\* dispatched, 0 if there is none.
FirstOf(op, type) ==
    IF \E i \in 1..Len(op.dispatched) : op.dispatched[i].type = type
    THEN CHOOSE i \in 1..Len(op.dispatched) :
             /\ op.dispatched[i].type = type
             /\ \A j \in 1..(i - 1) : op.dispatched[j].type # type
    ELSE 0

\* C17: when handleNewPost has dispatched the receipt of a post whose parent
\* was not cached, the thread fetch has completed and the parent is in the
\* store.
C17_ParentBeforeReceipt ==
    (/\ lastOp.op = "handleNewPost"
     /\ lastOp.msg.post.root_id # NoId
     /\ FirstOf(lastOp, "RECEIVED_NEW_POST") > 0)
    => /\ \A i \in 1..Len(threadReqs) :
              threadReqs[i].rootId # lastOp.msg.post.root_id
       /\ lastOp.msg.post.root_id \in DOMAIN posts

\* C18: when handleNewPost found the membership record of the post's channel
\* present but empty, it has issued getMyChannelMember for that channel
\* before the receipt of the post.
C18_MembershipLoadedFirst ==
    (lastOp.op = "handleNewPost" /\ lastOp.member = "{}")
    => /\ FirstOf(lastOp, "getMyChannelMember") > 0
       /\ FirstOf(lastOp, "getMyChannelMember")
              < FirstOf(lastOp, "RECEIVED_NEW_POST")
       /\ myMembers[lastOp.msg.post.channel_id] = "member"

\* The marks an operation applied, in order.
MarksOf(op) ==
    SelectSeq(op.effects,
              LAMBDA a : a.type \in {"markChannelAsRead", "markChannelAsViewed",
                                     "markChannelAsUnread"})
OwnRegular(post) ==
    /\ post.user_id = CurrentUserId
    /\ post.type \notin {JOIN_CHANNEL, COMBINED_USER_ACTIVITY, HEADER_CHANGE}
    /\ ~post.from_webhook

\* C19: a post of the current user that is neither a system message nor from
\* a webhook marks its channel read without notifying the server, whether or
\* not the channel is the focused one, and never marks it unread.
C19_OwnPostsAlwaysRead ==
    (lastOp.op = "handleNewPost" /\ OwnRegular(lastOp.msg.post))
    => MarksOf(lastOp) =
           <<Act("markChannelAsRead", lastOp.msg.post.channel_id, FALSE),
             Act("markChannelAsViewed", lastOp.msg.post.channel_id, NoId)>>

C19_Witness ==
    /\ lastOp.op = "handleNewPost"
    /\ OwnRegular(lastOp.msg.post)
    /\ lastOp.msg.post.channel_id # CurrentChannelId
    /\ lastOp.msg.post.id \in DOMAIN posts
    /\ Len(MarksOf(lastOp)) = 2

\* C20: a post that is not ignored and not a regular post of the current
\* user marks its channel read with the server notified when the channel is
\* the focused one, and otherwise marks it unread with the mentions of the
\* event; every post that is not ignored marks its channel either read or
\* unread, once.
C20_ReadOrUnread ==
    (lastOp.op = "handleNewPost" /\ lastOp.msg.post.type # JOIN_CHANNEL)
    => LET post == lastOp.msg.post
           marks == MarksOf(lastOp)
           reads == SelectSeq(marks, LAMBDA a : a.type = "markChannelAsRead")
           unreads == SelectSeq(marks, LAMBDA a : a.type = "markChannelAsUnread")
       IN  /\ Len(reads) + Len(unreads) = 1
           /\ ~OwnRegular(post)
              => IF post.channel_id = CurrentChannelId
                 THEN marks = <<Act("markChannelAsRead", post.channel_id, TRUE),
                                Act("markChannelAsViewed", post.channel_id, NoId)>>
                 ELSE marks = <<Act("markChannelAsUnread", post.channel_id,
                                    [team_id |-> lastOp.msg.team_id,
                                     mentions |-> lastOp.msg.mentions])>>

C20_Witness ==
    /\ lastOp.op = "handleNewPost"
    /\ lastOp.msg.post.user_id = CurrentUserId
    /\ lastOp.msg.post.from_webhook
    /\ lastOp.msg.post.channel_id # CurrentChannelId
    /\ lastOp.msg.mentions = <<CurrentUserId>>
    /\ MarksOf(lastOp) = <<Act("markChannelAsUnread", lastOp.msg.post.channel_id,
                               [team_id |-> TeamId,
                                mentions |-> <<CurrentUserId>>])>>
    /\ \E id \in DOMAIN posts :
          /\ id # lastOp.id
          /\ posts[id].channel_id = CurrentChannelId
          /\ posts[id].user_id = OtherUserId

\* C21: for a post of an ignored type handleNewPost dispatches the new-post
\* receipt and the stop-typing signal and after them nothing but what makes
\* the channel of a direct or group message visible: no mark-read,
\* mark-viewed or mark-unread.
C21_IgnoredPostsNotMarked ==
    (lastOp.op = "handleNewPost" /\ lastOp.msg.post.type \in IgnorePostTypes)
    => LET n == Len(lastOp.dispatched)
           r == FirstOf(lastOp, "RECEIVED_NEW_POST")
       IN  /\ \A i \in 1..n :
                  lastOp.dispatched[i].type \notin
                      {"markChannelAsRead", "markChannelAsViewed",
                       "markChannelAsUnread"}
           /\ MarksOf(lastOp) = <<>>
           /\ r > 0 /\ r < n
           /\ lastOp.dispatched[r] =
                  [type |-> "RECEIVED_NEW_POST", id |-> lastOp.msg.post.id]
           /\ lastOp.dispatched[r + 1] =
                  [type |-> "STOP_TYPING",
                   id |-> TypingId(lastOp.msg.post.channel_id,
                                   lastOp.msg.post.root_id)]
           /\ \A i \in (r + 2)..n :
                  lastOp.dispatched[i].type \in
                      {"makeDirectChannelVisibleIfNecessary",
                       "makeGroupMessageVisibleIfNecessary"}
           /\ lastOp.ret = "data"

C21_Witness ==
    /\ lastOp.op = "handleNewPost"
    /\ lastOp.msg.post.type = JOIN_CHANNEL
    /\ lastOp.msg.post.user_id = OtherUserId
    /\ lastOp.msg.post.channel_id # CurrentChannelId
    /\ lastOp.msg.mentions = <<CurrentUserId>>
    /\ lastOp.msg.post.id \in DOMAIN posts
    /\ lastOp.msg.channel_type = DM_CHANNEL
    /\ Len(lastOp.dispatched) = 3
    /\ lastOp.dispatched[3] =
          [type |-> "makeDirectChannelVisibleIfNecessary", id |-> OtherUserId]

PinOps == {"pinPost", "unpinPost"}

C22_Step ==
    (/\ lastOp'.op \in PinOps
     /\ lastOp'.ret = "data"
     /\ calls # <<>>
     /\ calls' = <<>>)
    => LET id == calls[1].postId
       IN  IF id \in DOMAIN posts
           THEN posts' = [posts EXCEPT ![id] =
                             [posts[id] EXCEPT
                                 !.is_pinned = (calls[1].op = "pinPost"),
                                 !.update_at = now]]
           ELSE posts' = posts

\* C22: a successful pinPost (unpinPost) sets the pinned flag of the local
\* copy to true (false) and its update timestamp to the current time, and
\* changes nothing else; without a local copy it returns {data} and leaves
\* the store's posts as they are.
C22_PinFlipsLocalCopy == [][C22_Step]_vars

C22_Witness ==
    /\ lastOp.op = "unpinPost"
    /\ lastOp.ret = "data"
    /\ lastOp.id \in DOMAIN posts
    /\ ~posts[lastOp.id].is_pinned
    /\ posts[lastOp.id].update_at = now
    /\ posts[lastOp.id].update_at # posts[lastOp.id].create_at
    /\ \E id \in DOMAIN posts : posts[id].is_pinned
    /\ \E id \in ForeignIds : id \notin DOMAIN posts

C23_Step ==
    /\ (\E id \in (DOMAIN posts) \cap (DOMAIN posts') :
            posts'[id].is_pinned # posts[id].is_pinned)
       => /\ calls # <<>>
          /\ calls' = <<>>
          /\ lastOp'.op \in PinOps
          /\ lastOp'.ret = "data"
    /\ (lastOp'.op \in PinOps /\ lastOp'.ret = "await" /\ calls' # calls)
       => posts' = posts
    /\ (lastOp'.op \in PinOps /\ lastOp'.ret = "error" /\ calls' # calls)
       => posts' = posts

\* C23: the pinned flag of a local post changes only in the step in which
\* pinPost / unpinPost resumes from a successful remote call; issuing the
\* call changes no post, and a failed call returns {error} and changes no
\* post.
C23_PinNotOptimistic == [][C23_Step]_vars

C23_Witness ==
    /\ lastOp.op = "pinPost"
    /\ lastOp.ret = "error"
    /\ lastOp.id \in DOMAIN posts
    /\ ~posts[lastOp.id].is_pinned
    /\ posts[lastOp.id].update_at = posts[lastOp.id].create_at

C24_Step ==
    /\ reactions' # reactions
       => /\ calls # <<>>
          /\ calls' = <<>>
          /\ lastOp'.op \in ReactionOps
          /\ lastOp'.ret # "error"
          /\ lastOp'.ret # "await"
    /\ (lastOp'.op = "addReaction" /\ lastOp'.ret = "data" /\ calls' # calls)
       => /\ reactions' = reactions
                \cup {Reaction(CurrentUserId, lastOp'.id, calls[1].emojiName)}
          /\ lastOp'.dispatched = <<[type |-> "RECEIVED_REACTION", id |-> NoId]>>
    /\ (lastOp'.op = "removeReaction" /\ lastOp'.ret = "data" /\ calls' # calls)
       => /\ reactions' = reactions
                \ {Reaction(CurrentUserId, lastOp'.id, calls[1].emojiName)}
          /\ lastOp'.dispatched = <<[type |-> "REACTION_DELETED", id |-> NoId]>>
    /\ (lastOp'.op \in {"addReaction", "removeReaction"} /\ calls' # calls
            /\ lastOp'.ret \in {"await", "error"})
       => /\ reactions' = reactions
          /\ \A i \in 1..Len(lastOp'.dispatched) :
                lastOp'.dispatched[i].type
                    \notin {"RECEIVED_REACTION", "REACTION_DELETED",
                            "RECEIVED_REACTIONS"}
          /\ (lastOp'.ret = "await") <=> (calls = <<>>)

\* C24: addReaction / removeReaction change the local reaction set only in
\* the step in which they resume from a successful remote call (the reaction
\* of the current user is added, or the triple is removed); issuing the call
\* dispatches no reaction action and changes no reaction; a failed call
\* dispatches no reaction action, changes no reaction and returns {error}.
C24_ReactionsNotOptimistic == [][C24_Step]_vars

C24_Witness ==
    /\ lastOp.op = "removeReaction"
    /\ lastOp.ret = "error"
    /\ Reaction(CurrentUserId, lastOp.id, Corgi) \in reactions
    /\ Reaction(CurrentUserId, lastOp.id, Smile) \notin reactions

\* C25: every operation that has returned has returned {data} or {error}:
\* addReaction, removeReaction and getReactionsForPost included, on success
\* and on failure.
C25_UniformResult ==
    (lastOp.op \in ReactionOps /\ lastOp.ret # "await")
        => lastOp.ret \in {"data", "error"}

\* The sends of createPost the server confirmed and the outbox committed.
Committed(channelId) ==
    {s \in serverPosts :
        /\ s.post.channel_id = channelId
        /\ \A i \in 1..Len(outbox) :
              ~(outbox[i].kind = "create" /\ outbox[i].sent
                    /\ outbox[i].resp = "ok" /\ outbox[i].payload = s.post)}

C26_Count ==
    \A c \in Channels :
        /\ msgCounts[c].total = Cardinality(Committed(c))
        /\ msgCounts[c].unread \in (0 - Cardinality(Committed(c)))..0

C26_Step ==
    /\ (lastOp'.op = "createPostCommit" /\ outbox' # outbox)
       => LET c == outbox[1].post.channel_id
          IN  /\ outbox[1].sent /\ outbox[1].resp = "ok"
              /\ outbox' = Tail(outbox)
              /\ msgCounts' =
                    [msgCounts EXCEPT ![c] = [total |-> @.total + 1,
                                             unread |-> @.unread - 1]]
              /\ lastOp'.sid = outbox[1].payload.id
              /\ Len(SelectSeq(lastOp'.dispatched,
                        LAMBDA a : a.type = "RECEIVED_FILES_FOR_POST")) = 1
              /\ \A i \in 1..Len(lastOp'.dispatched) :
                    lastOp'.dispatched[i].type = "RECEIVED_FILES_FOR_POST"
                        => lastOp'.dispatched[i].id = lastOp'.sid
    /\ msgCounts' # msgCounts
       => \/ lastOp'.op = "createPostCommit" /\ outbox' # outbox
          \/ /\ lastOp'.op = "handleNewPost"
             /\ lastOp'.effects # <<>>
             /\ lastOp'.effects[1].type = "markChannelAsRead"
             /\ msgCounts' =
                   [msgCounts EXCEPT ![lastOp'.effects[1].id].unread = 0]

\* C26: the commit of a send the server confirmed adds exactly 1 to the total
\* counter of the post's channel, takes exactly 1 from its unread counter and
\* re-attaches the files under the confirmed id, and it takes the send off
\* the queue, so that it happens once per confirmed send; no other step of
\* createPost (the optimistic step, a deduplicated call, the send itself, a
\* rollback) changes a counter. The only other change of a counter is made
\* by the channel being marked read when the server's event of an own post
\* is handled, which empties the unread counter and leaves the total: the
\* total always equals the number of committed sends of the channel.
C26_CountersOncePerConfirmedSend == []C26_Count /\ [][C26_Step]_vars

C26_Witness ==
    /\ msgCounts[CurrentChannelId] = [total |-> 1, unread |-> 0 - 1]
    /\ failedSends # {}
    /\ lastOp.op = "createPost"
    /\ lastOp.dedup

\* (The event of a committed own post was handled: the channel is marked
\* read, its total stays.)
C26_MarkedRead ==
    /\ lastOp.op = "handleNewPost"
    /\ msgCounts[CurrentChannelId] = [total |-> 1, unread |-> 0]
    /\ Cardinality(Committed(CurrentChannelId)) = 1

C27_Step ==
    lastOp'.op = "removePost" => \A post \in Deletable :
        (/\ lastOp'.id = post.id
         /\ lastOp'.members = post.system_post_ids
         /\ dispatchRemovePost(post))
        => LET M == StoredMembers(posts, post.system_post_ids)
           IN  /\ IsCombined(post)
                  => /\ lastOp'.dispatched =
                            [i \in 1..Len(M) |->
                                [type |-> "POST_REMOVED", id |-> M[i]]]
                     /\ DOMAIN posts' = (DOMAIN posts) \ {M[i] : i \in 1..Len(M)}
               /\ ~IsCombined(post)
                  => /\ lastOp'.dispatched =
                            <<[type |-> "POST_REMOVED", id |-> post.id]>>
                     /\ DOMAIN posts' = (DOMAIN posts) \ {post.id}
               /\ \A id \in DOMAIN posts' : posts'[id] = posts[id]
               /\ outbox' = outbox
               /\ calls' = calls

\* C27 (amended): removePost of a single post dispatches exactly one
\* post-removed for it; removePost of a combined post dispatches one
\* post-removed for each of its members the store holds, in order, none for
\* a member the store does not hold and none for the combined record; the
\* posts are removed from the store, no post is marked deleted, and no
\* remote call is queued or made.
C27_RemoveFansOutOverStoredMembers == [][C27_Step]_vars

\* A combined post of three members, one of which the store does not hold,
\* was removed: two post-removed dispatches.
C27_Witness ==
    /\ lastOp.op = "removePost"
    /\ lastOp.id = CombinedId
    /\ Len(lastOp.members) = 3
    /\ Len(lastOp.dispatched) = 2
    /\ outbox = <<>>

C27_OriginalStep ==
    lastOp'.op = "removePost" => \A post \in Deletable :
        (/\ lastOp'.id = post.id
         /\ lastOp'.members = post.system_post_ids
         /\ dispatchRemovePost(post))
        => LET M == post.system_post_ids
           IN  /\ IsCombined(post)
                  => lastOp'.dispatched =
                        [i \in 1..Len(M) |->
                            [type |-> "POST_REMOVED", id |-> M[i]]]
               /\ ~IsCombined(post)
                  => lastOp'.dispatched =
                        <<[type |-> "POST_REMOVED", id |-> post.id]>>
               /\ outbox' = outbox
               /\ calls' = calls

\* C27 as claimed: removePost of a combined post dispatches one post-removed
\* for each of its members and none for the combined record; removePost of a
\* single post dispatches exactly one post-removed for it; no post-deleted
\* marker is dispatched and no remote call is issued.
C27_RemoveFansOut == [][C27_OriginalStep]_vars

\* The mentions of the messages of a scanned batch.
MentionsOf(parts) ==
    {token \in UNION {Range(parts[i]) : i \in 1..Len(parts)} :
        token.kind = "mention"}

\* A mention resolves to a cached profile by its canonical form or by its
\* punctuation-preserving form.
Resolves(mention) ==
    \E profile \in cached.profiles :
        profile.username \in {mention.name, mention.name \o mention.punct}

\* C30: the username demand set of a batch holds no reserved token, and it is
\* exactly what the mentions of the messages contribute: nothing for a
\* reserved mention, nothing for a mention that resolves to a cached profile
\* by its canonical or its punctuation-preserving form, and both forms for
\* every other mention; a word that is not a mention contributes nothing.
C30_MentionScan ==
    lastOp.op = "getNeededAtMentionedUsernames"
    => /\ lastOp.effects \cap SPECIAL_MENTIONS = {}
       /\ lastOp.effects =
             UNION {IF mention.name \in SPECIAL_MENTIONS \/ Resolves(mention)
                    THEN {}
                    ELSE {mention.name, mention.name \o mention.punct} :
                        mention \in MentionsOf(lastOp.parts)}

\* A mention one of whose forms names a property every plain object
\* inherits.
Inherited(mention) ==
    {mention.name, mention.name \o mention.punct} \cap ObjectPrototypeKeys # {}

\* (The scan as the lookup of line 945 makes it: a mention one of whose forms
\* is an inherited property name contributes nothing either.)
C30_InheritedTakenAsCached ==
    lastOp.op = "getNeededAtMentionedUsernames"
    => /\ lastOp.effects \cap SPECIAL_MENTIONS = {}
       /\ lastOp.effects =
             UNION {IF \/ mention.name \in SPECIAL_MENTIONS
                       \/ Resolves(mention)
                       \/ Inherited(mention)
                    THEN {}
                    ELSE {mention.name, mention.name \o mention.punct} :
                        mention \in MentionsOf(lastOp.parts)}

\* ("@valueOf" with no profile cached: nothing is asked for.)
C30_InheritedWitness ==
    /\ lastOp.op = "getNeededAtMentionedUsernames"
    /\ lastOp.parts = <<<<MentionToken(ValueOf, <<>>)>>>>
    /\ cached.profiles = {}
    /\ lastOp.effects = {}

C30_Witness ==
    /\ lastOp.op = "getNeededAtMentionedUsernames"
    /\ lastOp.parts = <<<<MentionToken(BDotO, <<>>), MentionToken(All, <<>>)>>,
                        <<MentionToken(BDotO, <<".">>)>>>>
    /\ lastOp.effects = {BDotO}
    /\ Cardinality(cached.profiles) = 1

PrefetchCallers == {"getProfilesAndStatusesForPosts", "getPosts"}

\* The demand set the prefetcher asked a fetch for (empty: no such fetch).
DemandSet(op) ==
    LET started == SelectSeq(lastOp.effects, LAMBDA fetch : fetch.op = op)
    IN  IF started = <<>> THEN {} ELSE started[1].args

\* The authors of the batch the prefetcher was called with.
Authors == {lastOp.parts.posts[i].user_id : i \in 1..Len(lastOp.parts.posts)}

C29_ProfilesAndStatuses ==
    /\ DemandSet("getProfilesByIds") =
          {u \in Authors :
              u # CurrentUserId /\ \A profile \in cached.profiles : profile.id # u}
    /\ DemandSet("getStatusesByIds") = {u \in Authors : u \notin cached.statuses}
    /\ (~lastOp.parts.given \/ lastOp.parts.posts = <<>>) => lastOp.effects = <<>>

\* C29 (amended): the profile demand set is exactly the authors of the batch
\* whose profile is not cached, the current user left out; the status demand
\* set is exactly the authors whose status is not cached, the current user
\* included; an empty or missing batch starts no fetch.
C29_DemandSets == lastOp.op \in PrefetchCallers => C29_ProfilesAndStatuses

C29_Witness ==
    /\ lastOp.op = "getProfilesAndStatusesForPosts"
    /\ DemandSet("getProfilesByIds") = {OtherUserId}
    /\ DemandSet("getStatusesByIds") = {CurrentUserId, OtherUserId}
    /\ DemandSet("getProfilesByUsernames") # {}
    /\ DemandSet("getCustomEmojisByName") = {}

\* C29 as claimed: the same, and the demand sets are disjoint.
C29_DemandSetsDisjoint ==
    lastOp.op \in PrefetchCallers
    => /\ C29_ProfilesAndStatuses
       /\ DemandSet("getProfilesByIds") \cap DemandSet("getStatusesByIds") = {}
       /\ DemandSet("getProfilesByUsernames")
             \cap DemandSet("getCustomEmojisByName") = {}

\* The fetches due for the batch the prefetcher was called with: one for
\* each demand set that is not empty.
FetchesDue ==
    LET batch == lastOp.parts.posts
        due == [getProfilesByIds |-> UserIdsToLoad(cached, batch) # {},
                getStatusesByIds |-> StatusesToLoad(cached, batch) # {},
                getProfilesByUsernames |->
                    getNeededAtMentionedUsernames(cached, batch) # {},
                getCustomEmojisByName |->
                    getNeededCustomEmojis(cached, batch) # {}]
    IN  IF batch = <<>> THEN <<>>
        ELSE SelectSeq(<<"getProfilesByIds", "getStatusesByIds",
                         "getProfilesByUsernames", "getCustomEmojisByName">>,
                       LAMBDA op : due[op])

C28_OnePerDemandSet ==
    /\ [i \in 1..Len(lastOp.effects) |-> lastOp.effects[i].op] = FetchesDue
    /\ \A i \in 1..Len(lastOp.effects) : lastOp.effects[i].args # {}
    /\ \A j \in 1..Len(calls) :
          \E i \in 1..Len(lastOp.effects) : calls[j].op = lastOp.effects[i].op

C28_ResolvesWithLast ==
    lastOp.op = "getProfilesAndStatusesForPosts"
    => (lastOp.ret = "resolved" <=> calls = <<>>)

\* C28: the prefetcher starts exactly one fetch for each demand set that is
\* not empty and none for an empty one, all of them in flight together; its
\* promise is resolved exactly when no fetch it started is in flight any
\* more; and a fetch operation that called it has not returned while a fetch
\* it started is still in flight.
C28_PrefetchJoined ==
    lastOp.op \in PrefetchCallers
    => /\ C28_OnePerDemandSet
       /\ C28_ResolvesWithLast
       /\ (lastOp.op = "getPosts" /\ lastOp.ret = "data") => calls = <<>>

\* C31: with custom emoji enabled, the emoji demand set of a batch is what
\* the posts of the batch without metadata name (in their message and in
\* their attachments) that is neither built in, nor cached, nor known not to
\* exist: a post with metadata contributes nothing and the others are
\* scanned; with custom emoji disabled the set is empty.
C31_EmojiSkipIsPerPost ==
    lastOp.op = "getNeededCustomEmojis"
        => lastOp.effects = getNeededCustomEmojisPerPost(cached, lastOp.parts)

\* (The parts of it that hold: nothing is asked for when custom emoji are
\* disabled or when the first post of the batch has metadata, and every post
\* is scanned when the first one has none.)
C31_FirstPostDecides ==
    lastOp.op = "getNeededCustomEmojis"
        => /\ cached.EnableCustomEmoji # "true" => lastOp.effects = {}
           /\ lastOp.parts[1].metadata => lastOp.effects = {}
           /\ (cached.EnableCustomEmoji = "true" /\ ~lastOp.parts[1].metadata)
                => lastOp.effects =
                     getNeededCustomEmojisPerPost(
                         cached,
                         [i \in 1..Len(lastOp.parts) |->
                             [lastOp.parts[i] EXCEPT !.metadata = FALSE]])


\* The CombinedPostList invariant: every identifier of the ordered sequence
\* has an entry in the mapping.
OrderHasEntries(list) ==
    \A i \in 1..Len(list.order) : list.order[i] \in Keys(list.posts)

AroundJoined == lastOp.op = "getPostsAround" /\ lastOp.ret = "data"
AroundHypothesis ==
    /\ OrderHasEntries(lastOp.parts.after[1])
    /\ OrderHasEntries(lastOp.parts.thread[1])
    /\ OrderHasEntries(lastOp.parts.before[1])

\* C32: when each of the three responses of getPostsAround satisfies the
\* CombinedPostList invariant, every identifier of the merged sequence (the
\* after order, the pivot, the before order) has an entry in the merged
\* mapping; the pivot is listed by neither page, so its entry is there
\* because the thread response, which lists it, holds it.
C32_AroundHasEntries ==
    (AroundJoined /\ AroundHypothesis)
    => LET after == lastOp.parts.after[1]
           thread == lastOp.parts.thread[1]
           before == lastOp.parts.before[1]
           list == lastOp.effects[2].data
       IN  /\ lastOp.effects[1].list = list
           /\ list.order = after.order \o <<lastOp.id>> \o before.order
           /\ Keys(list.posts) = Keys(after.posts) \cup Keys(thread.posts)
                                    \cup Keys(before.posts)
           /\ OrderHasEntries(list)
           /\ lastOp.id \in Range(thread.order)
           /\ lastOp.id \notin Range(after.order) \cup Range(before.order)
           /\ lastOp.id \in Keys(list.posts)
           /\ Lookup(list.posts, lastOp.id).id = lastOp.id

\* The pivot's entry came from the thread response alone, between a page
\* after and a page before, and the batch is in the store.
C32_Witness ==
    /\ AroundJoined
    /\ AroundHypothesis
    /\ lastOp.id \in Keys(lastOp.parts.thread[1].posts)
    /\ lastOp.id \notin Keys(lastOp.parts.after[1].posts)
    /\ lastOp.id \notin Keys(lastOp.parts.before[1].posts)
    /\ lastOp.parts.after[1].order # <<>>
    /\ lastOp.parts.before[1].order # <<>>
    /\ OrderHasEntries(lastOp.effects[2].data)
    /\ Lookup(lastOp.effects[2].data.posts, lastOp.id) =
          Lookup(lastOp.parts.thread[1].posts, lastOp.id)
    /\ \A i \in 1..Len(lastOp.effects[2].data.order) :
            lastOp.effects[2].data.order[i] \in DOMAIN posts

C33_Step ==
    \A post \in Drafts, resp \in {"ok", OtherError} :
        (/\ lastOp'.op = "createPostImmediately"
         /\ createPostImmediately(post, <<>>, resp))
        => LET pendingPostId == PendingId(CurrentUserId, now)
               key == IF "id" \in DOMAIN post THEN post.id ELSE pendingPostId
           IN  /\ lastOp'.id = pendingPostId
               /\ ~lastOp'.dedup
               /\ lastOp'.dispatched =
                    <<[type |-> "RECEIVED_NEW_POST", id |-> key]>>
               /\ key \in DOMAIN posts'
               /\ posts'[key].pending_post_id = pendingPostId
               /\ posts'[key].create_at = now
               /\ Len(immediate') = Len(immediate) + 1
               /\ immediate'[Len(immediate')].id = pendingPostId
               /\ immediate'[Len(immediate')].post.pending_post_id = pendingPostId
               /\ outbox' = outbox

\* C33: createPostImmediately computes its pending id from the current user
\* and the timestamp whatever pending id its draft carries, and whether or
\* not a send with that id is outstanding it dispatches the optimistic record
\* and issues a remote create of its own.
C33_ImmediateNeverDeduplicates == [][C33_Step]_vars

\* Two createPostImmediately calls with one timestamp are both awaiting
\* their remote create while a createPost send with the same pending id is
\* queued.
C33_Witness ==
    /\ lastOp.op = "createPostImmediately"
    /\ Len(immediate) = 2
    /\ immediate[1].id = immediate[2].id
    /\ isPostIdSending(pendingPostIds, immediate[1].id)
    /\ \E i \in 1..Len(outbox) :
            outbox[i].kind = "create" /\ outbox[i].id = immediate[1].id

C34_Step ==
    \A i \in 1..Len(calls) :
        (/\ calls[i].op \in PinOps
         /\ lastOp'.op = calls[i].op
         /\ lastOp'.ret = "data"
         /\ calls' = Without(calls, i))
        => LET id == calls[i].postId
               pinned == calls[i].op = "pinPost"
               was == calls[i].was
               success == [type |-> "EDIT_POST_SUCCESS", id |-> NoId]
           IN  /\ lastOp'.parts = was
               /\ (was = <<>> /\ id \in DOMAIN posts)
                    => /\ id \in DOMAIN posts'
                       /\ posts'[id].is_pinned = pinned
               /\ (was # <<>> /\ id \notin DOMAIN posts)
                    => /\ posts' = posts
                       /\ lastOp'.dispatched = <<success>>
               /\ id \in DOMAIN posts
                    => /\ Len(lastOp'.effects) = 2
                       /\ lastOp'.effects[2].type = "RECEIVED_POST"
                       /\ lastOp'.effects[2].data =
                            [posts[id] EXCEPT !.is_pinned = pinned,
                                              !.update_at = now]
                       /\ posts'[id] = lastOp'.effects[2].data

\* C34: when pinPost / unpinPost resumes from a successful remote call it
\* reads the post from the store as it is then: a post loaded while the call
\* was in flight gets its pinned flag set, a post removed in the meantime
\* gets no mutation, and the record dispatched is the post as the store
\* holds it then, with only the pinned flag and the update timestamp changed.
C34_PinReadsStoreAtResume == [][C34_Step]_vars

\* A post was marked deleted while its pin call was in flight and the
\* record dispatched keeps that mark.
C34_Witness ==
    /\ lastOp.op = "pinPost"
    /\ lastOp.ret = "data"
    /\ lastOp.parts # <<>>
    /\ lastOp.parts[1].state = ""
    /\ Len(lastOp.effects) = 2
    /\ lastOp.effects[2].data.state = "DELETED"
    /\ lastOp.effects[2].data.is_pinned
    /\ lastOp.id \in DOMAIN posts
    /\ posts[lastOp.id] = lastOp.effects[2].data

\* (A post loaded while the call was in flight is pinned.)
C34_LoadedMeanwhile ==
    /\ lastOp.op = "pinPost"
    /\ lastOp.ret = "data"
    /\ lastOp.parts = <<>>
    /\ lastOp.id \in DOMAIN posts
    /\ posts[lastOp.id].is_pinned

\* (A post removed while the call was in flight is not put back.)
C34_RemovedMeanwhile ==
    /\ lastOp.op \in PinOps
    /\ lastOp.ret = "data"
    /\ lastOp.parts # <<>>
    /\ lastOp.id \notin DOMAIN posts
    /\ Len(lastOp.effects) = 1

\* (A post edited while its pin call was in flight keeps the edited message
\* in the record the pin dispatches.)
C34_EditedMeanwhile ==
    /\ lastOp.op = "pinPost"
    /\ lastOp.ret = "data"
    /\ lastOp.parts # <<>>
    /\ lastOp.parts[1].message = <<>>
    /\ Len(lastOp.effects) = 2
    /\ lastOp.effects[2].data.message = EditedMessage
    /\ lastOp.effects[2].data.is_pinned

====
